---- MODULE Spec2Model ----
(***************************************************************************)
(* State-machine model of the FACEIT demo native host:                     *)
(*   native_host.py  - process_demo_file (the ingest pipeline),            *)
(*                     parse_demo_metadata, copy_playdemo_to_clipboard     *)
(*   path_finder.py  - SteamPathFinder (installation discovery) and        *)
(*                     PathConfigManager (the path configuration store)    *)
(* Paths and file names are strings; the filesystem is a set of existing   *)
(* directories plus a set of file records; the zstandard, demoparser2 and  *)
(* pyperclip libraries, the registry and the OS file operations are        *)
(* collaborators whose outcomes are chosen nondeterministically.           *)
(***************************************************************************)
EXTENDS Integers, Sequences, FiniteSets, TLC

(***************************************************************************)
(* Bounds of the model.                                                    *)
(***************************************************************************)
\* number of processDemo requests handled in one behaviour
MaxRuns == 2
\* number of collaborator operations that fail in one behaviour
MaxFaults == 1
\* number of consecutive calendar days the clock ranges over
NumDays == 2
\* the number of tokens a raw map identifier is made of, at most
MaxTokens == 3
\* the method calls on one PathConfigManager and its finder
MaxCalls == 2

(***************************************************************************)
(* Python values.                                                          *)
(***************************************************************************)
\* Python's None, where a string or a Path is expected
None == "<None>"

\* Python's None, where a dict is expected
NoneDict == [none |-> TRUE]

\* Op applied to the value of v, which is computed once
Bind(v, Op(_)) == CHOOSE r \in {Op(w) : w \in {v}} : TRUE

\* the path separator of pathlib on Windows
Sep == "\\"

\* pathlib: parent / child
Join(parent, child) == parent \o Sep \o child

(***************************************************************************)
(* String functions, computed on the characters as Python computes them.   *)
(***************************************************************************)
\* s[i:] with a 1-based i
StrFrom(s, i) == SubSeq(s, i, Len(s))

\* s.startswith(p, i) with a 1-based i
MatchesAt(s, p, i) == i + Len(p) - 1 <= Len(s) /\ SubSeq(s, i, i + Len(p) - 1) = p

RECURSIVE ReplaceFrom(_, _, _, _)
ReplaceFrom(s, old, new, i) ==
    IF i > Len(s) THEN ""
    ELSE IF MatchesAt(s, old, i)
         THEN new \o ReplaceFrom(s, old, new, i + Len(old))
         ELSE SubSeq(s, i, i) \o ReplaceFrom(s, old, new, i + 1)

\* str.replace(old, new) for a non-empty old: every non-overlapping
\* occurrence, left to right
StrReplace(s, old, new) == ReplaceFrom(s, old, new, 1)

RECURSIVE LastSep(_, _)
\* the 1-based index of the last separator of s at or before i, 0 when none
LastSep(s, i) ==
    IF i = 0 THEN 0
    ELSE IF SubSeq(s, i, i) = Sep THEN i ELSE LastSep(s, i - 1)

\* PurePath.name: the final component
PathName(path) == StrFrom(path, LastSep(path, Len(path)) + 1)

\* PurePath.parent, as a string
PathParent(path) == SubSeq(path, 1, LastSep(path, Len(path)) - 1)

RECURSIVE LastDot(_, _)
\* the 1-based index of the last "." of s at or before i, 0 when none
LastDot(s, i) ==
    IF i = 0 THEN 0
    ELSE IF SubSeq(s, i, i) = "." THEN i ELSE LastDot(s, i - 1)

\* a variant that takes every name for a compressed archive
PathSuffixAlwaysZst(name) == ".zst"

\* PurePath.suffix of a file name: the last dot-component, "" when the
\* only dot leads the name or ends it
PathSuffix(name) ==
    LET i == LastDot(name, Len(name))
    IN  IF 1 < i /\ i < Len(name) THEN StrFrom(name, i) ELSE ""

\* PurePath.stem: the name without its suffix
PathStem(name) ==
    LET i == LastDot(name, Len(name))
    IN  IF 1 < i /\ i < Len(name) THEN SubSeq(name, 1, i - 1) ELSE name

RECURSIVE FirstParentRef(_, _)
\* the 1-based index of the first component ".." of path at or after i (the
\* index of the separator before it), 0 when none
FirstParentRef(path, i) ==
    IF i + 2 > Len(path) THEN 0
    ELSE IF /\ SubSeq(path, i, i + 2) = Sep \o ".."
            /\ (i + 2 = Len(path) \/ SubSeq(path, i + 3, i + 3) = Sep)
         THEN i
         ELSE FirstParentRef(path, i + 1)

RECURSIVE Resolved(_)
\* the file a path names to the operating system: each component ".."
\* steps to the parent of what precedes it, and stays at the root
Resolved(path) ==
    LET i == FirstParentRef(path, 1)
        before == SubSeq(path, 1, i - 1)
        cut == LastSep(before, Len(before))
    IN  IF i = 0 THEN path
        ELSE Resolved((IF cut = 0 THEN before ELSE SubSeq(before, 1, cut - 1))
                          \o StrFrom(path, i + 3))

(***************************************************************************)
(* Dates: file_date.strftime("%d%b%Y").lower()                             *)
(***************************************************************************)
MonthAbbr == <<"jan", "feb", "mar", "apr", "may", "jun",
               "jul", "aug", "sep", "oct", "nov", "dec">>

Pad2(n) == IF n < 10 THEN "0" \o ToString(n) ELSE ToString(n)

\* "%d%b%Y" lowered: two-digit day, month abbreviation, year
DateToken(date) == Pad2(date.d) \o MonthAbbr[date.m] \o ToString(date.y)

\* the days the clock can show (19 and following of October 2025)
Dates == {[y |-> 2025, m |-> 10, d |-> 18 + i] : i \in 1..NumDays}

(***************************************************************************)
(* State.                                                                  *)
(***************************************************************************)
VARIABLES
    \* --- the machine, outside the host process ---
    registry,             \* [1..3 -> InstallPath of the registry key, or None]
    fsPaths,              \* the directories and installation files that exist
    manifests,            \* the libraryfolders.vdf files: [path, readable, entries]
    destFiles,            \* the files in data directories: [dir, name, data, size, mtime]
    srcFiles,             \* the paths of the downloaded files that exist
    cfgFile,              \* config.json: a configuration record, or NoneDict
    clipboard,            \* the system clipboard: a string, or None
    today,                \* the calendar day of the clock
    faults,               \* the number of collaborator failures so far
    ZSTD_AVAILABLE,       \* module flags of native_host.py, set at import
    CLIPBOARD_AVAILABLE,
    DEMOPARSER_AVAILABLE,
    \* --- the host process handling one processDemo message ---
    pc,                   \* the stage the process is about to run
    runs,                 \* the number of requests so far (one process each)
    file_path,            \* locals of process_demo_file
    config,               \* PathConfigManager.config
    finder,               \* PathConfigManager.finder: [steam_path, cs2_path, cs2_replays_path]
    csgo_folder,
    output_filename,
    output_path,
    file_size,
    final_filename,
    demo_metadata,
    clipboard_result,
    response,             \* the dict main is about to send, or NoneDict
    received_message,     \* the message main read, or NoneDict
    stdout,               \* what the last process wrote: "frame" and "fragment" items
    \* --- history, for stating properties ---
    calls,                \* collaborator operations called in this run
    faulted,              \* those of them that failed
    parsed_header,        \* the header the parser returned in this run, or NoneDict
    atStart,              \* the machine's files and clipboard when the run began
    customSet,            \* the path last accepted by set_custom_path and saved, or None
    history,              \* per successful run: what it resolved and produced
    initialDest,          \* destFiles of the initial state
    \* --- the path_finder classes called on their own ---
    call                  \* the method called last on the manager or its finder:
                          \* [op, result, entry], NoneDict when none was called
                          \* since the machine changed

installVars == <<registry, fsPaths, manifests>>
capVars == <<ZSTD_AVAILABLE, CLIPBOARD_AVAILABLE, DEMOPARSER_AVAILABLE>>
machineVars == <<installVars, destFiles, srcFiles, cfgFile, clipboard, today,
                 faults, capVars>>
localVars == <<file_path, config, finder, csgo_folder, output_filename,
               output_path, file_size, final_filename, demo_metadata,
               clipboard_result, response>>
ioVars == <<received_message, stdout>>
runGhosts == <<calls, faulted, parsed_header, atStart>>
ghostVars == <<runGhosts, customSet, history, initialDest>>
vars == <<machineVars, pc, runs, localVars, ioVars, ghostVars, call>>

(***************************************************************************)
(* path_finder.py : SteamPathFinder                                        *)
(***************************************************************************)
\* Path.exists() for a directory or an installation file
Exists(path) == path \in fsPaths

CS2_FOLDER_NAMES == <<"Counter-Strike Global Offensive", "Counter-Strike 2", "csgo">>

\* SteamPathFinder.__init__
NewFinder == [steam_path |-> None, cs2_path |-> None, cs2_replays_path |-> None]

\* a variant that takes the first key that can be read as final
RegistryScanFirstReadable(k) ==
    LET readable == {j \in k..Len(registry) : registry[j] # None}
    IN  IF readable = {} THEN None
        ELSE LET first == CHOOSE j \in readable : \A i \in readable : j <= i
             IN  IF Exists(registry[first]) THEN registry[first] ELSE None

RECURSIVE RegistryScan(_)
\* the loop of find_steam_installation from key k on: the InstallPath of the
\* first key that can be read and whose path exists
RegistryScan(k) ==
    IF k > Len(registry) THEN None
    ELSE IF registry[k] # None /\ Exists(registry[k]) THEN registry[k]
         ELSE RegistryScan(k + 1)

\* find_steam_installation: result and the finder afterwards
find_steam_installation(f) ==
    Bind(RegistryScan(1), LAMBDA found :
        [result |-> found,
         finder |-> IF found # None THEN [f EXCEPT !.steam_path = found] ELSE f])

\* the manifest file at a path: a record of manifests, or NoneDict
ManifestAt(path) ==
    IF \E m \in manifests : m.path = path
    THEN CHOOSE m \in manifests : m.path = path
    ELSE NoneDict

InSeq(x, seq) == \E i \in 1..Len(seq) : seq[i] = x

RECURSIVE AddLibraries(_, _, _)
\* the for loop over the "path" entries of the manifest
AddLibraries(libraries, entries, i) ==
    IF i > Len(entries) THEN libraries
    ELSE LET library_path == StrReplace(entries[i], "\\\\", "\\")
         IN  AddLibraries(IF Exists(library_path) /\ ~InSeq(library_path, libraries)
                          THEN Append(libraries, library_path)
                          ELSE libraries,
                          entries, i + 1)

\* get_steam_library_folders: result (a sequence) and the finder afterwards
get_steam_library_folders(f) ==
    Bind(IF f.steam_path = None THEN find_steam_installation(f).finder ELSE f,
         LAMBDA f1 :
        Bind(ManifestAt(Join(Join(f1.steam_path, "steamapps"), "libraryfolders.vdf")),
             LAMBDA vdf :
            [result |-> IF f1.steam_path = None THEN <<>>
                        ELSE IF vdf = NoneDict THEN <<f1.steam_path>>
                        ELSE IF ~vdf.readable THEN <<f1.steam_path>>
                        ELSE AddLibraries(<<f1.steam_path>>, vdf.entries, 1),
             finder |-> f1]))

\* the test of find_cs2_installation that a folder looks like an installation
LooksLikeCs2(cs2_path) ==
    LET game_folder == Join(cs2_path, "game")
        csgo == IF Exists(game_folder) THEN Join(game_folder, "csgo")
                ELSE Join(cs2_path, "csgo")
    IN  Exists(cs2_path) /\ (Exists(game_folder) \/ Exists(csgo))

RECURSIVE ProbeLibraries(_, _, _)
\* the nested loops of find_cs2_installation from library i, folder name j on
ProbeLibraries(libraries, i, j) ==
    IF i > Len(libraries) THEN None
    ELSE LET steamapps == Join(Join(libraries[i], "steamapps"), "common")
         IN  IF ~Exists(steamapps) \/ j > Len(CS2_FOLDER_NAMES)
             THEN ProbeLibraries(libraries, i + 1, 1)
             ELSE IF LooksLikeCs2(Join(steamapps, CS2_FOLDER_NAMES[j]))
                  THEN Join(steamapps, CS2_FOLDER_NAMES[j])
                  ELSE ProbeLibraries(libraries, i, j + 1)

\* find_cs2_installation: result and the finder afterwards
find_cs2_installation(f) ==
    Bind(get_steam_library_folders(f), LAMBDA libs :
        Bind(ProbeLibraries(libs.result, 1, 1), LAMBDA found :
            [result |-> found,
             finder |-> IF found # None THEN [libs.finder EXCEPT !.cs2_path = found]
                        ELSE libs.finder]))

\* find_cs2_csgo_folder: result and the finder afterwards
find_cs2_csgo_folder(f) ==
    Bind(IF f.cs2_path = None THEN find_cs2_installation(f).finder ELSE f,
         LAMBDA f1 :
        LET first == Join(Join(f1.cs2_path, "game"), "csgo")
            second == Join(f1.cs2_path, "csgo")
            found == IF f1.cs2_path = None THEN None
                     ELSE IF Exists(first) THEN first
                     ELSE IF Exists(second) THEN second
                     ELSE None
        IN  [result |-> found,
             finder |-> IF found # None THEN [f1 EXCEPT !.cs2_replays_path = found]
                        ELSE f1])

\* find_cs2_executable: result and the finder afterwards
find_cs2_executable(f) ==
    Bind(IF f.cs2_path = None THEN find_cs2_installation(f).finder ELSE f,
         LAMBDA g :
            IF g.cs2_path = None THEN [result |-> None, finder |-> g]
            ELSE LET first == Join(Join(Join(Join(g.cs2_path, "game"), "bin"), "win64"), "cs2.exe")
                     second == Join(g.cs2_path, "cs2.exe")
                 IN  [result |-> IF Exists(first) THEN first
                                 ELSE IF Exists(second) THEN second ELSE None,
                      finder |-> g])

\* find_all_paths: the dict returned and the finder afterwards
find_all_paths(f) ==
    Bind(find_steam_installation(f).finder, LAMBDA f1 :
    Bind(find_cs2_installation(f1).finder, LAMBDA f2 :
    Bind(find_cs2_csgo_folder(f2), LAMBDA csgo :
    Bind(find_cs2_executable(csgo.finder), LAMBDA exe :
    Bind(get_steam_library_folders(exe.finder), LAMBDA libs :
        [result |-> [steam_path |-> exe.finder.steam_path,
                     cs2_path |-> exe.finder.cs2_path,
                     cs2_csgo_path |-> csgo.result,
                     cs2_exe_path |-> exe.result,
                     steam_libraries |-> libs.result],
         finder |-> libs.finder])))))

(***************************************************************************)
(* path_finder.py : PathConfigManager                                      *)
(***************************************************************************)
\* the empty dict {}: dict.get gives None for both keys
EmptyConfig == [cs2_csgo_path |-> None, cs2_replays_path |-> None]

\* _load_config: the file's dict, {} when the file is missing
\* or cannot be parsed (cfgFile = NoneDict)
LoadConfig == IF cfgFile = NoneDict THEN EmptyConfig ELSE cfgFile

\* get_cs2_csgo_path on configuration c and finder f: the result, the
\* configuration and finder afterwards, and whether save_config was called
get_cs2_csgo_path(c, f) ==
    LET custom_path == c.cs2_csgo_path
    IN  IF custom_path # None /\ Exists(custom_path)
        THEN [result |-> custom_path, config |-> c, finder |-> f, saved |-> FALSE]
        ELSE Bind(find_cs2_csgo_folder(f), LAMBDA auto :
                IF auto.result # None
                THEN [result |-> auto.result,
                      config |-> [c EXCEPT !.cs2_csgo_path = auto.result],
                      finder |-> auto.finder, saved |-> TRUE]
                ELSE [result |-> None, config |-> c, finder |-> auto.finder,
                      saved |-> FALSE])

\* a variant that stores the path without looking for it on disk
set_custom_path_unchecked(c, path) ==
    [result |-> TRUE, config |-> [c EXCEPT !.cs2_replays_path = path], saved |-> TRUE]

\* set_custom_path(path) on configuration c: the result, the configuration
\* afterwards, and whether save_config was called
set_custom_path(c, path) ==
    IF ~Exists(path)
    THEN [result |-> FALSE, config |-> c, saved |-> FALSE]
    ELSE [result |-> TRUE, config |-> [c EXCEPT !.cs2_replays_path = path],
          saved |-> TRUE]

\* a variant that reports the cached path as the configured one
get_all_detected_paths_cached(c, f) ==
    Bind(find_all_paths(f), LAMBDA detected :
        [result |-> [steam_path |-> detected.result.steam_path,
                     cs2_path |-> detected.result.cs2_path,
                     cs2_csgo_path |-> detected.result.cs2_csgo_path,
                     cs2_exe_path |-> detected.result.cs2_exe_path,
                     steam_libraries |-> detected.result.steam_libraries,
                     configured_path |-> c.cs2_csgo_path],
         config |-> c, finder |-> detected.finder])

\* get_all_detected_paths on configuration c and finder f: the dict
\* returned, and the configuration and finder afterwards
get_all_detected_paths(c, f) ==
    Bind(find_all_paths(f), LAMBDA detected :
        [result |-> [steam_path |-> detected.result.steam_path,
                     cs2_path |-> detected.result.cs2_path,
                     cs2_csgo_path |-> detected.result.cs2_csgo_path,
                     cs2_exe_path |-> detected.result.cs2_exe_path,
                     steam_libraries |-> detected.result.steam_libraries,
                     configured_path |-> c.cs2_replays_path],
         config |-> c, finder |-> detected.finder])

\* a variant that writes the override alone and drops the cached path
SaveConfigOverrideOnly(c, written) ==
    IF written THEN [EmptyConfig EXCEPT !.cs2_replays_path = c.cs2_replays_path]
    ELSE cfgFile

\* save_config: the file afterwards; written == FALSE is the swallowed
\* failure to open the file for writing
SaveConfig(c, written) == IF written THEN c ELSE cfgFile

(***************************************************************************)
(* Files of the data directories.                                          *)
(***************************************************************************)
\* the file records of `files` at a path (none or one)
FilesAt(files, path) == {f \in files : Join(f.dir, f.name) = path}

\* Path.exists() for a file of a data directory
FileExists(files, path) == FilesAt(files, path) # {}

\* open(path, 'wb') and the write of `size` bytes: the file is created, or
\* truncated and rewritten when one of that name is there
WriteFile(files, dir, name, data, size, mtime) ==
    (files \ FilesAt(files, Join(dir, name)))
        \cup {[dir |-> dir, name |-> name, data |-> data, size |-> size, mtime |-> mtime]}

\* Path.rename(target) when it succeeds: the file takes the new name, and a
\* file that held that name is replaced
RenameFile(files, path, dir, new_name) ==
    LET moved == FilesAt(files, path)
    IN  ((files \ FilesAt(files, Join(dir, new_name))) \ moved)
            \cup {[f EXCEPT !.name = new_name] : f \in moved}

(***************************************************************************)
(* native_host.py : parse_demo_metadata                                    *)
(***************************************************************************)
\* header.get('map_name', 'unknown')
HeaderMapName(header) ==
    IF "map_name" \in DOMAIN header THEN header.map_name ELSE "unknown"

\* a variant that leaves the map identifier as the parser gave it
CleanMapNameKept(map_name) == map_name

\* map_name.replace('de_', '').replace('cs_', '')
CleanMapName(map_name) ==
    Bind(StrReplace(map_name, "de_", ""), LAMBDA without_de :
        StrReplace(without_de, "cs_", ""))

\* a variant without the existence check: the first candidate is taken
NameLoopFirstCandidate(files, demo_path, base_filename, new_filename, counter) ==
    new_filename

RECURSIVE NameLoop(_, _, _, _, _)
\* the while loop: new_filename, then base_2, base_3, ... until the name
\* does not exist in the directory or is the path of the demo itself
NameLoop(files, demo_path, base_filename, new_filename, counter) ==
    IF FileExists(files, Join(PathParent(demo_path), new_filename))
       /\ Join(PathParent(demo_path), new_filename) # demo_path
    THEN Bind(base_filename \o "_" \o ToString(counter) \o ".dem", LAMBDA next_filename :
            NameLoop(files, demo_path, base_filename, next_filename, counter + 1))
    ELSE new_filename

\* the dict parse_demo_metadata returns when the parser gave `header`
ParsedMetadata(files, demo_path, header) ==
    Bind(CleanMapName(HeaderMapName(header)), LAMBDA map_name :
        Bind(DateToken((CHOOSE f \in FilesAt(files, demo_path) : TRUE).mtime),
             LAMBDA date_str :
            Bind(map_name \o "_" \o date_str, LAMBDA base_filename :
                [map |-> map_name, date |-> date_str,
                 filename |-> NameLoop(files, demo_path, base_filename,
                                       base_filename \o ".dem", 2)])))

(***************************************************************************)
(* native_host.py : copy_playdemo_to_clipboard                             *)
(***************************************************************************)
\* a variant that puts only the file name on the clipboard
PlaydemoCommandBare(demo_filename) == demo_filename

\* line 92: f"playdemo {demo_filename}"
PlaydemoCommand(demo_filename) == "playdemo " \o demo_filename

\* a variant that reports a missing pyperclip as a clipboard error
ClipboardResultNoManual(demo_filename, available, copied) ==
    IF available /\ copied
    THEN [method |-> "clipboard", command |-> PlaydemoCommand(demo_filename),
          message |-> "Command copied to clipboard: " \o PlaydemoCommand(demo_filename)]
    ELSE [method |-> "error", command |-> PlaydemoCommand(demo_filename),
          message |-> "Clipboard error: pyperclip could not copy"]

\* the dict returned: `available` is CLIPBOARD_AVAILABLE, `copied` is
\* whether pyperclip.copy returned instead of raising
ClipboardResult(demo_filename, available, copied) ==
    LET playdemo_command == PlaydemoCommand(demo_filename)
    IN  IF available /\ copied
        THEN [method |-> "clipboard", command |-> playdemo_command,
              message |-> "Command copied to clipboard: " \o playdemo_command]
        ELSE IF ~available
        THEN [method |-> "manual", command |-> playdemo_command,
              message |-> "Clipboard unavailable. Manual command: " \o playdemo_command]
        ELSE [method |-> "error", command |-> playdemo_command,
              message |-> "Clipboard error: pyperclip could not copy"]

(***************************************************************************)
(* The inputs and the machines the model ranges over.                      *)
(***************************************************************************)
Downloads == "C:\\Downloads"

\* the filePath values of processDemo requests; the last one is never
\* on disk, and None is a request without filePath
SourcePaths == {Join(Downloads, "match1.dem.zst"),
                Join(Downloads, "match2.dem.zst"),
                Join(Downloads, "inferno_19oct2025.dem.zst"),
                Join(Downloads, "notes.txt"),
                Join(Downloads, "gone.dem.zst")}

\* the downloaded files on disk at the start
InitialSources == SourcePaths \ {Join(Downloads, "gone.dem.zst")}

\* the size of the demo an archive holds: one archive holds an empty demo
PayloadSize(path) == IF path = Join(Downloads, "match2.dem.zst") THEN 0 ELSE 1

\* a collaborator operation either works, or fails while the behaviour
\* has failures left
Outcomes == {TRUE} \cup {ok \in {FALSE} : faults < MaxFaults}

\* the failure count after an operation with outcome `ok`
Count(ok) == IF ok THEN faults ELSE faults + 1

\* the headers the parser can return
Headers == {[map_name |-> "de_inferno"], [map_name |-> "cs_office"]}

SteamRoot == "C:\\Steam"
Cs2Root == Join(Join(Join(SteamRoot, "steamapps"), "common"), CS2_FOLDER_NAMES[1])
AutoCsgo == Join(Join(Cs2Root, "game"), "csgo")
Cs2Exe == Join(Join(Join(Join(Cs2Root, "game"), "bin"), "win64"), "cs2.exe")
CustomDir == "D:\\Demos"
MissingDir == "E:\\Nowhere"
\* csgo folders of Steam libraries the game was in earlier: one was left
\* on disk when the game moved, the other was removed
OldCsgo == "D:\\OldLibrary\\steamapps\\common\\Counter-Strike Global Offensive\\game\\csgo"
GoneCsgo == "E:\\Library\\steamapps\\common\\Counter-Strike Global Offensive\\game\\csgo"

\* a machine with Steam and the game installed, and one without Steam
InstalledMachine ==
    [registry |-> <<None, SteamRoot, None>>,
     fsPaths |-> {SteamRoot, Join(SteamRoot, "steamapps"),
                  Join(Join(SteamRoot, "steamapps"), "common"),
                  Cs2Root, Join(Cs2Root, "game"), AutoCsgo, Cs2Exe,
                  CustomDir, OldCsgo},
     manifests |-> {}]
BareMachine ==
    [registry |-> <<None, None, None>>, fsPaths |-> {CustomDir, OldCsgo},
     manifests |-> {}]

\* config.json at the start: missing, or written by get_cs2_csgo_path in an
\* earlier process, when the game was in one of the earlier libraries
InitialConfigs ==
    {NoneDict,
     [cs2_csgo_path |-> OldCsgo, cs2_replays_path |-> None],
     [cs2_csgo_path |-> GoneCsgo, cs2_replays_path |-> None]}

\* files that may lie in the data directory before the first request
OldFile(name) == [dir |-> AutoCsgo, name |-> name, data |-> 0, size |-> 1,
                  mtime |-> [y |-> 2025, m |-> 10, d |-> 19]]
InitialDestFiles == {{}, {OldFile("inferno_19oct2025.dem")}, {OldFile("match1.dem")}}

(***************************************************************************)
(* Initial state.                                                          *)
(***************************************************************************)
\* the locals of a process that has not entered process_demo_file
NoLocals ==
    /\ file_path = None
    /\ config = EmptyConfig
    /\ finder = NewFinder
    /\ csgo_folder = None
    /\ output_filename = None
    /\ output_path = None
    /\ file_size = 0
    /\ final_filename = None
    /\ demo_metadata = NoneDict
    /\ clipboard_result = NoneDict
    /\ response = NoneDict

NoSnapshot == [destFiles |-> {}, cfgFile |-> NoneDict, srcFiles |-> {},
               clipboard |-> None, faults |-> 0]

Init ==
    /\ \E machine \in {InstalledMachine, BareMachine} :
          /\ registry = machine.registry
          /\ fsPaths = machine.fsPaths
          /\ manifests = machine.manifests
    /\ destFiles \in {files \in InitialDestFiles : \A f \in files : f.dir \in fsPaths}
    /\ srcFiles = InitialSources
    /\ cfgFile \in InitialConfigs
    /\ clipboard = None
    /\ today \in {dt \in Dates : dt.d = 19}
    /\ faults = 0
    /\ ZSTD_AVAILABLE \in BOOLEAN
    /\ CLIPBOARD_AVAILABLE \in BOOLEAN
    /\ DEMOPARSER_AVAILABLE \in BOOLEAN
    /\ pc = "idle"
    /\ runs = 0
    /\ NoLocals
    /\ received_message = NoneDict
    /\ stdout = <<>>
    /\ calls = {}
    /\ faulted = {}
    /\ parsed_header = NoneDict
    /\ atStart = NoSnapshot
    /\ customSet = None
    /\ history = <<>>
    /\ initialDest = destFiles
    /\ call = NoneDict

(***************************************************************************)
(* native_host.py : process_demo_file, one action per stage.               *)
(***************************************************************************)
\* the except clause of process_demo_file
ProcessingFailed(e) == [status |-> "error", message |-> "Processing failed: " \o e]

\* process_demo_file returns `r`
Return(r) ==
    /\ response' = r
    /\ pc' = "done"

\* the machine's files, configuration and clipboard as a request arrives
Snapshot == [destFiles |-> destFiles, cfgFile |-> cfgFile, srcFiles |-> srcFiles,
             clipboard |-> clipboard, faults |-> faults]

\* main, lines 362-367: a processDemo request with filePath = path arrives
\* and process_demo_file(path) is entered
ProcessDemo(path) ==
    /\ UNCHANGED call
    /\ pc = "idle"
    /\ runs < MaxRuns
    /\ runs' = runs + 1
    /\ pc' = "validate"
    /\ file_path' = path
    /\ received_message' = IF path = None THEN [action |-> "processDemo"]
                           ELSE [action |-> "processDemo", filePath |-> path]
    /\ stdout' = <<>>
    /\ atStart' = Snapshot
    /\ UNCHANGED <<machineVars, config, finder, csgo_folder, output_filename,
                   output_path, file_size, final_filename, demo_metadata,
                   clipboard_result, response, calls, faulted, parsed_header,
                   customSet, history, initialDest>>

\* a variant without the test that the file exists
InputErrorMissingAccepted(path, exists) ==
    IF PathSuffix(PathName(path)) # ".zst"
    THEN [status |-> "error", message |-> "File is not a compressed demo (.zst)"]
    ELSE NoneDict

\* lines 240-254: the dict returned for a source that is not on disk
\* (exists: file_path.exists()) or is not a .zst file, NoneDict to go on
InputError(path, exists) ==
    IF ~exists
    THEN [status |-> "error", message |-> "File not found: " \o path]
    ELSE IF PathSuffix(PathName(path)) # ".zst"
    THEN [status |-> "error", message |-> "File is not a compressed demo (.zst)"]
    ELSE NoneDict

\* lines 231-254: the library check, Path(file_path_str), exists, suffix
Validate ==
    /\ UNCHANGED call
    /\ pc = "validate"
    /\ UNCHANGED ioVars
    /\ IF ~ZSTD_AVAILABLE
       THEN Return([status |-> "error",
                    message |-> "Decompression library not installed. Please run: pip install zstandard"])
       ELSE IF file_path = None
       THEN Return(ProcessingFailed("expected str, bytes or os.PathLike object, not NoneType"))
       ELSE IF InputError(file_path, file_path \in srcFiles) # NoneDict
       THEN Return(InputError(file_path, file_path \in srcFiles))
       ELSE pc' = "locate" /\ UNCHANGED response
    /\ UNCHANGED <<machineVars, runs, file_path, config, finder, csgo_folder,
                   output_filename, output_path, file_size, final_filename,
                   demo_metadata, clipboard_result, ghostVars>>

\* a variant of the not-found dict without the remediation hint
NotFoundResultNoHint(folder) ==
    IF folder = None
    THEN [status |-> "error",
          message |-> "CS2 installation not found. Please configure the CS2 folder path manually."]
    ELSE NoneDict

\* lines 262-268: the dict returned when get_cs2_csgo_path() gave `folder`
\* and it is empty, NoneDict to go on
NotFoundResult(folder) ==
    IF folder = None
    THEN [status |-> "error",
          message |-> "CS2 installation not found. Please configure the CS2 folder path manually.",
          action_required |-> "configure_path"]
    ELSE NoneDict

\* lines 258-270: PathConfigManager() and get_cs2_csgo_path(); `constructed`
\* is the outcome of the constructor (config_dir.mkdir can raise), `written`
\* the outcome of save_config's open
LocateDestination ==
    /\ UNCHANGED call
    /\ pc = "locate"
    /\ UNCHANGED ioVars
    /\ \E constructed \in Outcomes, written \in Outcomes,
          got \in {get_cs2_csgo_path(LoadConfig, NewFinder)} :
              IF ~constructed
              THEN /\ written
                   /\ faults' = faults + 1
                   /\ faulted' = faulted \cup {"PathConfigManager"}
                   /\ Return(ProcessingFailed("cannot create the configuration directory"))
                   /\ UNCHANGED <<config, finder, csgo_folder, cfgFile>>
              ELSE /\ got.saved \/ written
                   /\ faults' = Count(written)
                   /\ faulted' = IF written THEN faulted ELSE faulted \cup {"save_config"}
                   /\ config' = got.config
                   /\ finder' = got.finder
                   /\ csgo_folder' = got.result
                   /\ cfgFile' = IF got.saved THEN SaveConfig(got.config, written)
                                 ELSE cfgFile
                   /\ IF NotFoundResult(got.result) # NoneDict
                      THEN Return(NotFoundResult(got.result))
                      ELSE pc' = "decompress" /\ UNCHANGED response
    /\ calls' = calls \cup {"PathConfigManager"}
    /\ UNCHANGED <<installVars, destFiles, srcFiles, clipboard, today, capVars,
                   runs, file_path, output_filename, output_path, file_size,
                   final_filename, demo_metadata, clipboard_result,
                   parsed_header, atStart, customSet, history, initialDest>>

\* what can happen in lines 279-282:
\*   "open_failed": one of the two open() calls raises, nothing is written
\*   "corrupt":     the output is created or truncated, copy_stream raises
\*   "ok":          copy_stream returns
DecompressOutcomes == {"ok"} \cup {o \in {"open_failed", "corrupt"} : faults < MaxFaults}

\* a variant that swallows the exceptions of the decompression block
DecompressFailureSwallowed(outcome, exists) ==
    IF ~exists
    THEN [status |-> "error", message |-> "Decompression failed - output file not created"]
    ELSE NoneDict

\* lines 279-290 and 347-352: the dict returned when decompression did not
\* produce the output (exists: output_path.exists()), NoneDict to go on
DecompressFailure(outcome, exists) ==
    IF outcome = "open_failed" THEN ProcessingFailed("Permission denied")
    ELSE IF outcome = "corrupt" THEN ProcessingFailed("zstd decompress error")
    ELSE IF ~exists
    THEN [status |-> "error", message |-> "Decompression failed - output file not created"]
    ELSE NoneDict

\* a variant in which reading the archive consumes it
ReadSourceConsumed(files, path) == files \ {path}

\* line 279: open(file_path, 'rb'), the downloaded files after the archive
\* was read
ReadSource(files, path) == files

\* lines 273-293: decompress into the data directory and verify
Decompress ==
    /\ UNCHANGED call
    /\ pc = "decompress"
    /\ UNCHANGED ioVars
    /\ \E outcome \in DecompressOutcomes :
          LET name == PathStem(PathName(file_path))
              path == Join(csgo_folder, name)
              size == IF outcome = "ok" THEN PayloadSize(file_path) ELSE 0
              written == IF outcome = "open_failed" THEN destFiles
                         ELSE WriteFile(destFiles, csgo_folder, name, runs, size, today)
              failure == DecompressFailure(outcome, FileExists(written, path))
          IN  /\ output_filename' = name
              /\ output_path' = path
              /\ destFiles' = written
              /\ srcFiles' = ReadSource(srcFiles, file_path)
              /\ faults' = Count(outcome = "ok")
              /\ faulted' = IF outcome = "ok" THEN faulted ELSE faulted \cup {"copy_stream"}
              /\ IF failure # NoneDict
                 THEN Return(failure) /\ UNCHANGED file_size
                 ELSE /\ file_size' = size
                      /\ pc' = "delete_source"
                      /\ UNCHANGED response
    /\ calls' = calls \cup {"copy_stream"}
    /\ UNCHANGED <<installVars, cfgFile, clipboard, today, capVars,
                   runs, file_path, config, finder, csgo_folder, final_filename,
                   demo_metadata, clipboard_result,
                   parsed_header, atStart, customSet, history, initialDest>>

\* a variant in which a failed unlink ends the run
DeleteFailureFatal(deleted) ==
    IF deleted THEN NoneDict ELSE ProcessingFailed("Permission denied")

\* lines 296-300: the dict returned because of the unlink (`deleted`: it
\* returned instead of raising); the exception is logged, so NoneDict to go on
DeleteFailure(deleted) == NoneDict

\* lines 295-303: file_path.unlink(), a failure is logged; then
\* final_filename = output_filename
DeleteSource ==
    /\ UNCHANGED call
    /\ pc = "delete_source"
    /\ UNCHANGED ioVars
    /\ \E deleted \in Outcomes :
          /\ srcFiles' = IF deleted THEN srcFiles \ {file_path} ELSE srcFiles
          /\ faults' = Count(deleted)
          /\ faulted' = IF deleted THEN faulted ELSE faulted \cup {"unlink"}
          /\ IF DeleteFailure(deleted) # NoneDict
             THEN Return(DeleteFailure(deleted)) /\ UNCHANGED final_filename
             ELSE /\ final_filename' = output_filename
                  /\ pc' = "metadata"
                  /\ UNCHANGED response
    /\ calls' = calls \cup {"unlink"}
    /\ UNCHANGED <<installVars, destFiles, cfgFile, clipboard, today, capVars,
                   runs, file_path, config, finder, csgo_folder, output_filename,
                   output_path, file_size, demo_metadata, clipboard_result,
                   parsed_header, atStart, customSet, history, initialDest>>

\* line 304 and lines 177-218: demo_metadata = parse_demo_metadata(output_path);
\* the parser raises or returns a header
ParseMetadata ==
    /\ UNCHANGED call
    /\ pc = "metadata"
    /\ UNCHANGED ioVars
    /\ IF ~DEMOPARSER_AVAILABLE
       THEN /\ demo_metadata' = NoneDict
            /\ UNCHANGED <<calls, faulted, faults, parsed_header>>
       ELSE /\ calls' = calls \cup {"parser"}
            /\ \E parsed \in Outcomes :
                  /\ faults' = Count(parsed)
                  /\ IF parsed
                     THEN /\ \E h \in Headers :
                               /\ parsed_header' = h
                               /\ demo_metadata' = ParsedMetadata(destFiles, output_path, h)
                          /\ UNCHANGED faulted
                     ELSE /\ demo_metadata' = NoneDict
                          /\ faulted' = faulted \cup {"parser"}
                          /\ UNCHANGED parsed_header
    /\ pc' = IF demo_metadata' # NoneDict THEN "rename" ELSE "clipboard"
    /\ UNCHANGED <<installVars, destFiles, srcFiles, cfgFile, clipboard, today, capVars,
                   runs, file_path, config, finder, csgo_folder, output_filename,
                   output_path, file_size, final_filename, clipboard_result, response,
                   atStart, customSet, history, initialDest>>

\* a variant that takes the new name whether or not rename returned
AfterRenameAssumed(renamed, old_path, old_filename, new_path, new_filename) ==
    [output_path |-> new_path, final_filename |-> new_filename]

\* lines 311-318: output_path and final_filename after the try block
AfterRename(renamed, old_path, old_filename, new_path, new_filename) ==
    IF renamed
    THEN [output_path |-> new_path, final_filename |-> new_filename]
    ELSE [output_path |-> old_path, final_filename |-> old_filename]

\* lines 306-318: output_path.rename(new_path); a failure is logged.
\* `renamed` is whether rename returned; onto an existing other file it
\* replaces that file (POSIX) or raises (Windows)
Rename ==
    /\ UNCHANGED call
    /\ pc = "rename"
    /\ UNCHANGED ioVars
    /\ \E renamed \in Outcomes :
          LET new_filename == demo_metadata.filename
              new_path == Join(csgo_folder, new_filename)
              clash == FileExists(destFiles, new_path) /\ new_path # output_path
              after == AfterRename(renamed, output_path, final_filename,
                                   new_path, new_filename)
          IN  /\ faults' = Count(renamed)
              /\ faulted' = IF renamed THEN faulted ELSE faulted \cup {"rename"}
              /\ destFiles' = IF renamed
                              THEN RenameFile(destFiles, output_path, csgo_folder, new_filename)
                              ELSE destFiles
              /\ output_path' = after.output_path
              /\ final_filename' = after.final_filename
              /\ calls' = calls \cup {"rename"}
                                \cup (IF renamed /\ clash THEN {"replace"} ELSE {})
    /\ pc' = "clipboard"
    /\ UNCHANGED <<installVars, srcFiles, cfgFile, clipboard, today, capVars,
                   runs, file_path, config, finder, csgo_folder, output_filename,
                   file_size, demo_metadata, clipboard_result, response,
                   parsed_header, atStart, customSet, history, initialDest>>

\* line 323 and lines 92-118: copy_playdemo_to_clipboard(final_filename)
PublishCommand ==
    /\ UNCHANGED call
    /\ pc = "clipboard"
    /\ UNCHANGED ioVars
    /\ \E copied \in Outcomes :
          /\ ~CLIPBOARD_AVAILABLE => copied
          /\ faults' = Count(copied)
          /\ faulted' = IF copied THEN faulted ELSE faulted \cup {"copy"}
          /\ clipboard_result' = ClipboardResult(final_filename, CLIPBOARD_AVAILABLE, copied)
          /\ clipboard' = IF CLIPBOARD_AVAILABLE /\ copied
                          THEN PlaydemoCommand(final_filename) ELSE clipboard
    /\ calls' = IF CLIPBOARD_AVAILABLE THEN calls \cup {"copy"} ELSE calls
    /\ pc' = "assemble"
    /\ UNCHANGED <<installVars, destFiles, srcFiles, cfgFile, today, capVars,
                   runs, file_path, config, finder, csgo_folder, output_filename,
                   output_path, file_size, final_filename, demo_metadata, response,
                   parsed_header, atStart, customSet, history, initialDest>>

\* a variant that reports renamed whether or not metadata was resolved
ResponseMetadataAlwaysRenamed(metadata) == [renamed |-> TRUE]

\* lines 336-343: the metadata block of the response
ResponseMetadata(metadata) ==
    IF metadata # NoneDict
    THEN [map |-> metadata.map, date |-> metadata.date, renamed |-> TRUE]
    ELSE [renamed |-> FALSE]

\* lines 326-345: the success response
AssembleResult ==
    /\ UNCHANGED call
    /\ pc = "assemble"
    /\ UNCHANGED ioVars
    /\ Return([status |-> "success",
               message |-> "Demo ready! (" \o ToString(file_size) \o " MB)",
               demo_name |-> final_filename,
               output_path |-> output_path,
               csgo_folder |-> csgo_folder,
               clipboard |-> clipboard_result,
               metadata |-> ResponseMetadata(demo_metadata)])
    /\ UNCHANGED <<machineVars, runs, file_path, config, finder, csgo_folder,
                   output_filename, output_path, file_size, final_filename,
                   demo_metadata, clipboard_result, ghostVars>>

\* the base name "{map}_{date}" a run resolved, None when it resolved none
ResolvedBase(metadata) ==
    IF metadata = NoneDict THEN None ELSE metadata.map \o "_" \o metadata.date

\* what send_message can do: "ok" writes the length and the content and
\* flushes; "lost" raises with nothing written (json.dumps, or the first
\* write); "fragment" raises once the length prefix has been written
SendOutcomes == {"ok"} \cup {o \in {"lost", "fragment"} : faults < MaxFaults}

\* lines 68-80: stdout after send_message with that outcome
Written(out, outcome) ==
    IF outcome = "ok" THEN Append(out, "frame")
    ELSE IF outcome = "fragment" THEN Append(out, "fragment")
    ELSE out

\* the process ends, its locals with it
ProcessExit ==
    /\ pc' = "idle"
    /\ file_path' = None
    /\ config' = EmptyConfig
    /\ finder' = NewFinder
    /\ csgo_folder' = None
    /\ output_filename' = None
    /\ output_path' = None
    /\ file_size' = 0
    /\ final_filename' = None
    /\ demo_metadata' = NoneDict
    /\ clipboard_result' = NoneDict
    /\ response' = NoneDict
    /\ received_message' = NoneDict
    /\ calls' = {}
    /\ faulted' = {}
    /\ parsed_header' = NoneDict
    /\ atStart' = NoSnapshot

\* lines 411-415: the except clause of main is entered with exception `e`
Raise(e) ==
    /\ response' = [status |-> "error", message |-> e]
    /\ pc' = "except"

\* main, send_message(result) of a branch (lines 370, 377, 386, 388, 399,
\* 404, 409) and lines 421-423: the response is sent and the process ends,
\* or send_message raises into the except clause; a successful
\* process_demo_file is entered in the history
SendResponse ==
    /\ UNCHANGED call
    /\ pc \in {"done", "reply"}
    /\ history' = IF pc = "done" /\ response.status = "success"
                  THEN Append(history,
                              [dir |-> csgo_folder,
                               base |-> ResolvedBase(demo_metadata),
                               renamed |-> "rename" \in calls \ faulted,
                               data |-> runs])
                  ELSE history
    /\ \E outcome \in SendOutcomes :
          /\ stdout' = Written(stdout, outcome)
          /\ faults' = Count(outcome = "ok")
          /\ IF outcome = "ok"
             THEN ProcessExit
             ELSE /\ Raise("send_message failed")
                  /\ faulted' = faulted \cup {"send_message"}
                  /\ UNCHANGED <<file_path, config, finder, csgo_folder,
                                 output_filename, output_path, file_size,
                                 final_filename, demo_metadata, clipboard_result,
                                 received_message, calls, parsed_header, atStart>>
    /\ UNCHANGED <<installVars, destFiles, srcFiles, cfgFile, clipboard, today,
                   capVars, runs, customSet, initialDest>>

\* main, lines 411-418: the exception is logged and an error response is
\* sent; when that raises too it is logged, and the process ends
SendError ==
    /\ UNCHANGED call
    /\ pc = "except"
    /\ \E outcome \in SendOutcomes :
          /\ stdout' = Written(stdout, outcome)
          /\ faults' = Count(outcome = "ok")
    /\ ProcessExit
    /\ UNCHANGED <<installVars, destFiles, srcFiles, cfgFile, clipboard, today,
                   capVars, runs, customSet, history, initialDest>>

(***************************************************************************)
(* native_host.py : main, the other actions.                               *)
(***************************************************************************)
\* dict.get(key)
MsgGet(msg, key) == IF key \in DOMAIN msg THEN msg[key] ELSE None

\* a request is read by get_message and handled up to its send_message
Receive(msg) ==
    /\ pc = "idle"
    /\ runs < MaxRuns
    /\ runs' = runs + 1
    /\ received_message' = msg
    /\ stdout' = <<>>
    /\ atStart' = Snapshot

\* lines 380-388: the response of the setCS2Path branch
SetPathResponse(result) ==
    IF result
    THEN [status |-> "success", message |-> "Custom path set successfully"]
    ELSE [status |-> "error", message |-> "Invalid path or path does not exist"]

\* main, lines 379-388: a setCS2Path request; a fresh PathConfigManager
\* loads the file, set_custom_path(path) runs, save_config may fail;
\* Path(None) raises for a request without path
SetCS2Path(path) ==
    /\ UNCHANGED call
    /\ Receive(IF path = None THEN [action |-> "setCS2Path"]
               ELSE [action |-> "setCS2Path", path |-> path])
    /\ \E constructed \in Outcomes, written \in Outcomes,
          got \in {set_custom_path(LoadConfig, path)} :
          IF ~constructed
          THEN /\ written
               /\ faults' = faults + 1
               /\ faulted' = {"PathConfigManager"}
               /\ calls' = {"PathConfigManager"}
               /\ Raise("cannot create the configuration directory")
               /\ UNCHANGED <<config, cfgFile, customSet>>
          ELSE IF path = None
          THEN /\ written
               /\ calls' = {"PathConfigManager", "set_custom_path"}
               /\ faulted' = {"set_custom_path"}
               /\ Raise("expected str, bytes or os.PathLike object, not NoneType")
               /\ config' = LoadConfig
               /\ UNCHANGED <<faults, cfgFile, customSet>>
          ELSE /\ got.saved \/ written
               /\ faults' = Count(written)
               /\ calls' = {"PathConfigManager", "set_custom_path"}
                              \cup (IF got.saved THEN {"save_config"} ELSE {})
               /\ faulted' = IF written THEN {} ELSE {"save_config"}
               /\ config' = got.config
               /\ cfgFile' = IF got.saved THEN SaveConfig(got.config, written) ELSE cfgFile
               /\ customSet' = IF got.result /\ written THEN path ELSE customSet
               /\ response' = SetPathResponse(got.result)
               /\ pc' = "reply"
    /\ UNCHANGED <<installVars, destFiles, srcFiles, clipboard, today, capVars,
                   file_path, finder, csgo_folder, output_filename, output_path,
                   file_size, final_filename, demo_metadata, clipboard_result,
                   parsed_header, history, initialDest>>

\* main, lines 372-377: a getCS2Path request; a fresh PathConfigManager
\* loads the file and get_all_detected_paths() runs
GetCS2Path ==
    /\ UNCHANGED call
    /\ Receive([action |-> "getCS2Path"])
    /\ \E constructed \in Outcomes,
          got \in {get_all_detected_paths(LoadConfig, NewFinder)} :
          /\ faults' = Count(constructed)
          /\ calls' = {"PathConfigManager"}
                         \cup (IF constructed THEN {"get_all_detected_paths"} ELSE {})
          /\ IF ~constructed
             THEN /\ faulted' = {"PathConfigManager"}
                  /\ Raise("cannot create the configuration directory")
                  /\ UNCHANGED <<config, finder>>
             ELSE /\ faulted' = {}
                  /\ config' = got.config
                  /\ finder' = got.finder
                  /\ response' = [status |-> "success", paths |-> got.result]
                  /\ pc' = "reply"
    /\ UNCHANGED <<installVars, destFiles, srcFiles, cfgFile, clipboard, today,
                   capVars, file_path, csgo_folder, output_filename, output_path,
                   file_size, final_filename, demo_metadata, clipboard_result,
                   parsed_header, customSet, history, initialDest>>

\* the demoName values of deleteDemo requests; None is a request without
\* demoName
DemoNames == {"inferno_19oct2025.dem", "match1.dem", "absent.dem", None,
              Join(Downloads, "match2.dem.zst"),
              "..\\..\\..\\..\\..\\..\\Downloads\\match1.dem.zst"}

\* line 141, csgo_folder / demo_filename: an absolute demo_filename (a
\* drive and a root) replaces the folder
DemoPath(folder, demo_filename) ==
    IF Len(demo_filename) >= 3 /\ SubSeq(demo_filename, 2, 3) = ":" \o Sep
    THEN demo_filename
    ELSE Join(folder, demo_filename)

\* lines 143 and 151: the file that demo_path.exists() looks for and
\* demo_path.unlink() removes
DeleteTarget(folder, demo_filename) == Resolved(DemoPath(folder, demo_filename))

\* a variant that reports success when there was nothing to delete
DeleteResultLenient(folder, demo_filename, exists, deleted) ==
    IF folder = None
    THEN [status |-> "error", message |-> "CS2 installation not found."]
    ELSE IF demo_filename = None
    THEN [status |-> "error",
          message |-> "Failed to delete demo: unsupported operand type(s) for /: 'WindowsPath' and 'NoneType'"]
    ELSE IF exists /\ ~deleted
    THEN [status |-> "error", message |-> "Failed to delete demo: Permission denied"]
    ELSE [status |-> "success", message |-> "Demo file deleted: " \o demo_filename]

\* lines 133-164: the dict delete_demo_file returns once get_cs2_csgo_path()
\* gave `folder`; `exists` is demo_path.exists(), `deleted` whether unlink
\* returned instead of raising
DeleteResult(folder, demo_filename, exists, deleted) ==
    IF folder = None
    THEN [status |-> "error", message |-> "CS2 installation not found."]
    ELSE IF demo_filename = None
    THEN [status |-> "error",
          message |-> "Failed to delete demo: unsupported operand type(s) for /: 'WindowsPath' and 'NoneType'"]
    ELSE IF ~exists
    THEN [status |-> "error", message |-> "Demo file not found: " \o demo_filename]
    ELSE IF ~deleted
    THEN [status |-> "error", message |-> "Failed to delete demo: Permission denied"]
    ELSE [status |-> "success", message |-> "Demo file deleted: " \o demo_filename]

\* main, lines 390-399, and delete_demo_file, lines 120-164: a deleteDemo
\* request; every exception is caught in delete_demo_file
DeleteDemo(demo_filename) ==
    /\ UNCHANGED call
    /\ Receive(IF demo_filename = None THEN [action |-> "deleteDemo"]
               ELSE [action |-> "deleteDemo", demoName |-> demo_filename])
    /\ \E got \in {get_cs2_csgo_path(LoadConfig, NewFinder)} :
       \E target \in {IF got.result = None \/ demo_filename = None THEN None
                      ELSE DeleteTarget(got.result, demo_filename)} :
       \E constructed \in Outcomes, written \in Outcomes, deleted \in Outcomes :
          IF ~constructed
          THEN /\ written /\ deleted
               /\ faults' = faults + 1
               /\ calls' = {"PathConfigManager"}
               /\ faulted' = {"PathConfigManager"}
               /\ response' = [status |-> "error",
                               message |-> "Failed to delete demo: cannot create the configuration directory"]
               /\ UNCHANGED <<config, finder, csgo_folder, cfgFile, destFiles, srcFiles>>
          ELSE LET demo_path == target
                   exists == /\ got.result # None
                             /\ demo_filename # None
                             /\ FileExists(destFiles, demo_path) \/ demo_path \in srcFiles
               IN  /\ got.saved \/ written
                   /\ exists \/ deleted
                   /\ written \/ deleted
                   /\ faults' = IF written /\ deleted THEN faults ELSE faults + 1
                   /\ calls' = {"PathConfigManager"}
                                  \cup (IF got.saved THEN {"save_config"} ELSE {})
                                  \cup (IF exists THEN {"unlink"} ELSE {})
                   /\ faulted' = (IF written THEN {} ELSE {"save_config"})
                                    \cup (IF deleted THEN {} ELSE {"unlink"})
                   /\ config' = got.config
                   /\ finder' = got.finder
                   /\ csgo_folder' = got.result
                   /\ cfgFile' = IF got.saved THEN SaveConfig(got.config, written)
                                 ELSE cfgFile
                   /\ destFiles' = IF exists /\ deleted
                                   THEN destFiles \ FilesAt(destFiles, demo_path)
                                   ELSE destFiles
                   /\ srcFiles' = IF exists /\ deleted THEN srcFiles \ {demo_path}
                                  ELSE srcFiles
                   /\ response' = DeleteResult(got.result, demo_filename, exists, deleted)
    /\ pc' = "reply"
    /\ UNCHANGED <<installVars, clipboard, today, capVars, file_path,
                   output_filename, output_path, file_size, final_filename,
                   demo_metadata, clipboard_result, parsed_header, customSet,
                   history, initialDest>>

\* the requests that are neither processDemo, getCS2Path, setCS2Path nor
\* deleteDemo: ping, an unknown action, and a message without action
OtherMessages ==
    {[action |-> "ping"], [action |-> "unknownAction", data |-> "test"],
     [data |-> "test"]}

\* a variant that answers an unknown action with an error
OtherResponseError(msg) ==
    IF MsgGet(msg, "action") = "ping"
    THEN [status |-> "success", message |-> "pong"]
    ELSE [status |-> "error", message |-> "unknown action"]

\* lines 401-409: the response of the ping branch and of the else branch
OtherResponse(msg) ==
    IF MsgGet(msg, "action") = "ping"
    THEN [status |-> "success", message |-> "pong"]
    ELSE [status |-> "unknown_action", received |-> msg]

\* main, lines 401-409: a ping request, or a request with another action
OtherAction(msg) ==
    /\ UNCHANGED call
    /\ Receive(msg)
    /\ response' = OtherResponse(msg)
    /\ pc' = "reply"
    /\ UNCHANGED <<machineVars, file_path, config, finder, csgo_folder,
                   output_filename, output_path, file_size, final_filename,
                   demo_metadata, clipboard_result, calls, faulted,
                   parsed_header, customSet, history, initialDest>>

\* the exceptions of a message that is no JSON object: json.loads raises in
\* get_message (line 66), or received_message.get raises (line 362)
BadBodies ==
    {"Expecting value: line 1 column 1 (char 0)",
     "'list' object has no attribute 'get'"}

\* main, lines 358-362 and 411-415: a message that cannot be read as a
\* JSON object raises into the except clause
ReceiveMalformed(e) ==
    /\ UNCHANGED call
    /\ Receive(NoneDict)
    /\ Raise(e)
    /\ UNCHANGED <<machineVars, file_path, config, finder, csgo_folder,
                   output_filename, output_path, file_size, final_filename,
                   demo_metadata, clipboard_result, calls, faulted,
                   parsed_header, customSet, history, initialDest>>

\* the clock reaches the next day
NextDay ==
    /\ UNCHANGED call
    /\ pc = "idle"
    /\ UNCHANGED ioVars
    /\ \E dt \in Dates : dt.d = today.d + 1 /\ today' = dt
    /\ UNCHANGED <<installVars, destFiles, srcFiles, cfgFile, clipboard, faults,
                   capVars, pc, runs, localVars, ghostVars>>

Next ==
    \/ \E path \in SourcePaths \cup {None} : ProcessDemo(path)
    \/ Validate
    \/ LocateDestination
    \/ Decompress
    \/ DeleteSource
    \/ ParseMetadata
    \/ Rename
    \/ PublishCommand
    \/ AssembleResult
    \/ SendResponse
    \/ SendError
    \/ \E path \in {CustomDir, MissingDir, None} : SetCS2Path(path)
    \/ GetCS2Path
    \/ \E demo_filename \in DemoNames : DeleteDemo(demo_filename)
    \/ \E msg \in OtherMessages : OtherAction(msg)
    \/ \E e \in BadBodies : ReceiveMalformed(e)
    \/ NextDay

Spec == Init /\ [][Next]_vars

(***************************************************************************)
(* Properties of process_demo_file.  They are stated on the state in which *)
(* the function has returned (pc = "done"), from the inputs of the run,    *)
(* the collaborator calls it made and the files on disk.                   *)
(***************************************************************************)
\* the source passes validation
InputValid ==
    /\ ZSTD_AVAILABLE
    /\ file_path # None
    /\ file_path \in atStart.srcFiles
    /\ PathSuffix(PathName(file_path)) = ".zst"

\* copy_stream was called and returned
Decompressed == "copy_stream" \in calls \ faulted

StartsWith(s, prefix) == MatchesAt(s, prefix, 1)

\* C1 (as amended): every exception of a stage is caught, so that a run
\* is always at one of its stages or has returned; the record it returns is
\* either status=success whose output_path names a file that exists on
\* disk at return time, or status=error with a non-empty message.
C1_ResultWellFormed ==
    /\ pc \in {"idle", "validate", "locate", "decompress", "delete_source",
               "metadata", "rename", "clipboard", "assemble", "done",
               "reply", "except"}
    /\ pc = "done" =>
          /\ response.status \in {"success", "error"}
          /\ response.status = "error" => Len(response.message) > 0
          /\ response.status = "success" => FileExists(destFiles, response.output_path)

\* C1 (as stated): in addition, the file a success names is non-empty.
C1_OutputNonEmpty ==
    pc = "done" /\ response.status = "success" =>
        /\ FileExists(destFiles, response.output_path)
        /\ \A f \in FilesAt(destFiles, response.output_path) : f.size > 0

\* C1 witness: a success whose output file exists and holds data.
C1_Witness ==
    /\ pc = "done"
    /\ response.status = "success"
    /\ \E f \in FilesAt(destFiles, response.output_path) : f.size > 0

ValidateMessages ==
    {"Decompression library not installed. Please run: pip install zstandard",
     "File is not a compressed demo (.zst)"}

\* C2: when validate, locate-destination or decompress fails, the result is
\* status=error with that stage's message and no later stage runs: the
\* source archive is not deleted, the parser, the rename and the clipboard
\* are not called; when validate fails, moreover, the configuration file
\* and the data directories are as they were.
C2_FatalShortCircuit ==
    pc = "done" =>
        LET validateFailed == ~InputValid
            locateFailed == InputValid /\ csgo_folder = None
            decompressFailed == "copy_stream" \in faulted
            generic == StartsWith(response.message, "Processing failed: ")
        IN  (validateFailed \/ locateFailed \/ decompressFailed) =>
                /\ response.status = "error"
                /\ calls \cap {"unlink", "parser", "rename", "copy"} = {}
                /\ srcFiles = atStart.srcFiles
                /\ clipboard = atStart.clipboard
                /\ validateFailed =>
                      /\ calls = {}
                      /\ cfgFile = atStart.cfgFile
                      /\ destFiles = atStart.destFiles
                      /\ \/ response.message \in ValidateMessages
                         \/ file_path # None
                            /\ response.message = "File not found: " \o file_path
                         \/ file_path = None /\ generic
                /\ locateFailed =>
                      /\ "copy_stream" \notin calls
                      /\ destFiles = atStart.destFiles
                      /\ \/ "PathConfigManager" \in faulted /\ generic
                         \/ /\ response.message = "CS2 installation not found. Please configure the CS2 folder path manually."
                            /\ response.action_required = "configure_path"
                /\ decompressFailed => generic

\* C2 witness: decompression raised and the function returned.
C2_Witness ==
    /\ pc = "done"
    /\ "copy_stream" \in faulted
    /\ file_path \in srcFiles

C4_CollisionFree ==
    /\ "replace" \notin calls
    /\ pc = "rename" =>
          LET target == Join(csgo_folder, demo_metadata.filename)
              first == Join(csgo_folder, "inferno_19oct2025.dem")
              second == Join(csgo_folder, "inferno_19oct2025_2.dem")
          IN  /\ ~(FileExists(destFiles, target) /\ target # output_path)
              /\ (/\ parsed_header.map_name = "de_inferno"
                  /\ today.d = 19
                  /\ FileExists(destFiles, first)
                  /\ first # output_path
                  /\ ~FileExists(destFiles, second))
                    => demo_metadata.filename = "inferno_19oct2025_2.dem"

\* C4 witness: the name is taken by another file and the counter 2 is used.
C4_Witness ==
    /\ pc = "rename"
    /\ demo_metadata.filename = "inferno_19oct2025_2.dem"
    /\ FileExists(destFiles, Join(csgo_folder, "inferno_19oct2025.dem"))
    /\ output_path # Join(csgo_folder, "inferno_19oct2025.dem")

\* the k-th name of the base B: B.dem, B_2.dem, B_3.dem, ...
SeqName(base, k) ==
    IF k = 1 THEN base \o ".dem" ELSE base \o "_" \o ToString(k) \o ".dem"

\* C5: when every ingest so far succeeded with no collaborator failing, and
\* the n ingests all resolved the same base name B into the same directory
\* and were renamed, and the directory held no B name at the start, it
\* holds B.dem, B_2.dem, ..., B_n.dem, the k-th being the file of the k-th
\* ingest.
C5_SequenceNaming ==
    LET n == Len(history)
    IN  (/\ pc = "idle"
         /\ n >= 1
         /\ runs = n
         /\ faults = 0
         /\ \A k \in 1..n :
               /\ history[k].base # None
               /\ history[k].base = history[1].base
               /\ history[k].dir = history[1].dir
               /\ history[k].renamed
         /\ \A f \in initialDest, k \in 1..MaxRuns :
               f.name # SeqName(history[1].base, k))
            => \A k \in 1..n :
                  \E f \in destFiles :
                     /\ f.dir = history[1].dir
                     /\ f.name = SeqName(history[1].base, k)
                     /\ f.data = history[k].data

\* the name expected for a header on a day of October 2025
ExpectedName(h, day) ==
    (IF h.map_name = "de_inferno" THEN "inferno" ELSE "office")
        \o "_" \o ToString(day.d) \o "oct2025.dem"

\* C6: for an existing archive X.dem.zst, a resolvable destination that
\* holds no {map}_{date}.dem, and every capability working, the run ends
\* with {map}_{date}.dem in the destination and no X.dem left, the source
\* archive removed, status=success, demo_name={map}_{date}.dem and
\* metadata.renamed=true.
C6_EndToEnd ==
    (/\ pc = "done"
     /\ InputValid
     /\ csgo_folder # None
     /\ CLIPBOARD_AVAILABLE /\ DEMOPARSER_AVAILABLE
     /\ faults = atStart.faults)
        => /\ parsed_header # NoneDict
           /\ LET target == ExpectedName(parsed_header, today)
              IN  ~FileExists(atStart.destFiles, Join(csgo_folder, target)) =>
                     /\ response.status = "success"
                     /\ response.demo_name = target
                     /\ response.metadata.renamed = TRUE
                     /\ response.output_path = Join(csgo_folder, target)
                     /\ \E f \in FilesAt(destFiles, Join(csgo_folder, target)) :
                           f.data = runs
                     /\ output_filename # target =>
                           ~FileExists(destFiles, Join(csgo_folder, output_filename))
                     /\ file_path \notin srcFiles

\* C6 witness: match1.dem.zst, de_inferno, 19 October 2025.
C6_Witness ==
    /\ pc = "done"
    /\ file_path = Join(Downloads, "match1.dem.zst")
    /\ faults = 0
    /\ response.status = "success"
    /\ response.demo_name = "inferno_19oct2025.dem"
    /\ response.metadata.renamed = TRUE
    /\ file_path \notin srcFiles
    /\ destFiles = {[dir |-> AutoCsgo, name |-> "inferno_19oct2025.dem", data |-> 1,
                     size |-> 1, mtime |-> [y |-> 2025, m |-> 10, d |-> 19]]}

\* C7: when the parser is unavailable or raises, parse_demo_metadata
\* returns None, and the run on a valid archive still returns
\* status=success with metadata.renamed=false, demo_name the source name
\* without .zst, and the decompressed file under that name.
C7_MetadataSkippable ==
    (/\ pc = "done"
     /\ Decompressed
     /\ ~DEMOPARSER_AVAILABLE \/ "parser" \in faulted)
        => /\ demo_metadata = NoneDict
           /\ "rename" \notin calls
           /\ response.status = "success"
           /\ response.metadata = [renamed |-> FALSE]
           /\ response.demo_name = PathStem(PathName(file_path))
           /\ \E f \in FilesAt(destFiles, Join(csgo_folder, response.demo_name)) :
                 f.data = runs

\* C7 witness: the parser raised and the run returned.
C7_Witness ==
    /\ pc = "done"
    /\ Decompressed
    /\ "parser" \in faulted

\* C8: when metadata was resolved but the rename fails, the run still
\* returns status=success, demo_name and output_path are those of the
\* pre-rename file, which exists, the clipboard command embeds that name,
\* and metadata.renamed=false.
C8_RenameFailureRecorded ==
    (pc = "done" /\ "rename" \in faulted)
        => /\ response.status = "success"
           /\ response.demo_name = output_filename
           /\ response.output_path = Join(csgo_folder, output_filename)
           /\ FileExists(destFiles, response.output_path)
           /\ response.clipboard.command = "playdemo " \o output_filename
           /\ response.metadata.renamed = FALSE

\* C9: when the clipboard capability is unavailable, the run on a valid
\* archive returns status=success with clipboard.method="manual" and
\* clipboard.command = "playdemo {final filename}"; nothing is copied.
C9_ClipboardUnavailable ==
    (pc = "done" /\ Decompressed /\ ~CLIPBOARD_AVAILABLE)
        => /\ response.status = "success"
           /\ response.clipboard.method = "manual"
           /\ response.clipboard.command = "playdemo " \o response.demo_name
           /\ response.output_path = Join(csgo_folder, response.demo_name)
           /\ FileExists(destFiles, response.output_path)
           /\ "copy" \notin calls
           /\ clipboard = atStart.clipboard

\* C9 witness: a run without pyperclip returned after decompressing.
C9_Witness ==
    /\ pc = "done"
    /\ Decompressed
    /\ ~CLIPBOARD_AVAILABLE

\* C10 (as amended): when pyperclip is available but copy raises, the
\* publish step gives the "error" outcome (clipboard.method="error", with
\* a clipboard-error message) carrying the same command string, the system
\* clipboard is left as it was, and the run still returns status=success.
C10_ClipboardFailure ==
    (pc = "done" /\ "copy" \in faulted)
        => /\ response.status = "success"
           /\ response.clipboard.method = "error"
           /\ StartsWith(response.clipboard.message, "Clipboard error: ")
           /\ response.clipboard.command = "playdemo " \o response.demo_name
           /\ FileExists(destFiles, Join(csgo_folder, response.demo_name))
           /\ clipboard = atStart.clipboard

\* C10 (as stated): when copy raises, the outcome is "manual" with the same
\* command string, and the run returns status=success.
C10_FailureIsManual ==
    (pc = "done" /\ "copy" \in faulted)
        => /\ response.status = "success"
           /\ response.clipboard.method = "manual"
           /\ response.clipboard.command = "playdemo " \o response.demo_name

\* C10 witness: copy raised and the run returned.
C10_Witness ==
    /\ pc = "done"
    /\ "copy" \in faulted
    /\ CLIPBOARD_AVAILABLE

\* the result carries the remediation hint
HasActionRequired == "action_required" \in DOMAIN response

\* C11: process_demo_file returns a result with action_required exactly when
\* validation passed and get_cs2_csgo_path() returned nothing; that result
\* is a failure with action_required="configure_path"; no input error, no
\* decompression failure, no caught exception and no success carries
\* action_required.
C11_HintOnlyOnLocateFailure ==
    pc = "done" =>
        /\ HasActionRequired <=>
              /\ InputValid
              /\ "PathConfigManager" \in calls \ faulted
              /\ csgo_folder = None
        /\ HasActionRequired =>
              /\ response.status = "error"
              /\ response.action_required = "configure_path"
              /\ calls = {"PathConfigManager"}
        /\ (\/ ~InputValid
            \/ "PathConfigManager" \in faulted
            \/ "copy_stream" \in calls
            \/ response.status = "success") => ~HasActionRequired

\* C11 witness: a valid archive on a machine where no directory resolves.
C11_Witness ==
    /\ pc = "done"
    /\ InputValid
    /\ csgo_folder = None
    /\ "PathConfigManager" \in calls \ faulted
    /\ HasActionRequired

\* C12: when the source file does not exist or its final extension is not
\* .zst, process_demo_file returns a failure with a message that says so;
\* a success is returned only for a source that existed at the start and
\* whose final extension is .zst.
C12_Validate ==
    pc = "done" =>
        /\ (ZSTD_AVAILABLE /\ file_path # None /\ file_path \notin atStart.srcFiles) =>
              /\ response.status = "error"
              /\ response.message = "File not found: " \o file_path
        /\ (/\ ZSTD_AVAILABLE
            /\ file_path \in atStart.srcFiles
            /\ SubSeq(file_path, Len(file_path) - 3, Len(file_path)) # ".zst") =>
              /\ response.status = "error"
              /\ response.message = "File is not a compressed demo (.zst)"
        /\ (file_path = None
              \/ file_path \notin atStart.srcFiles
              \/ SubSeq(file_path, Len(file_path) - 3, Len(file_path)) # ".zst") =>
              /\ response.status = "error"
              /\ Len(response.message) > 0
              /\ calls = {}
        /\ response.status = "success" =>
              /\ file_path \in atStart.srcFiles
              /\ SubSeq(file_path, Len(file_path) - 3, Len(file_path)) = ".zst"

\* C12 witness: an existing file that is not an archive was refused.
C12_Witness ==
    /\ pc = "done"
    /\ file_path = Join(Downloads, "notes.txt")
    /\ file_path \in atStart.srcFiles
    /\ ZSTD_AVAILABLE
    /\ response.status = "error"

\* C13: when decompression succeeded and unlink of the source archive
\* raises, the run goes on through parse_demo_metadata, the rename and
\* copy_playdemo_to_clipboard and returns status=success, and the source
\* archive is still on disk.
C13_DeleteBestEffort ==
    (pc = "done" /\ Decompressed /\ "unlink" \in faulted) =>
        /\ response.status = "success"
        /\ file_path \in srcFiles
        /\ srcFiles = atStart.srcFiles
        /\ FileExists(destFiles, response.output_path)
        /\ DEMOPARSER_AVAILABLE <=> "parser" \in calls
        /\ demo_metadata # NoneDict <=> "rename" \in calls
        /\ clipboard_result # NoneDict
        /\ response.clipboard = clipboard_result
        /\ CLIPBOARD_AVAILABLE <=> "copy" \in calls
        /\ ("parser" \in calls \ faulted /\ "rename" \notin faulted) =>
              /\ response.demo_name = demo_metadata.filename
              /\ response.metadata.renamed = TRUE

\* C13 witness: unlink raised, and the run ended renamed and copied.
C13_Witness ==
    /\ pc = "done"
    /\ "unlink" \in faulted
    /\ file_path \in srcFiles
    /\ response.status = "success"
    /\ {"parser", "rename", "copy"} \subseteq calls

\* C22: when process_demo_file returns a failure, the source archive, if it
\* existed when the run began, still exists; and whenever the archive has
\* been removed during a run, the decompressed output had been written and
\* found on disk.
C22_SourceKeptOnFailure ==
    /\ (pc = "done" /\ response.status = "error" /\ file_path \in atStart.srcFiles)
           => file_path \in srcFiles
    /\ (pc \in {"metadata", "rename", "clipboard", "assemble", "done"}
            /\ file_path \in atStart.srcFiles /\ file_path \notin srcFiles)
           => /\ Decompressed
              /\ "unlink" \in calls \ faulted
              /\ pc = "done" => response.status = "success"

\* a run failed in the decompression itself, with the archive on disk at
\* the start and still there
C22_Witness ==
    /\ pc = "done"
    /\ response.status = "error"
    /\ "copy_stream" \in faulted
    /\ file_path \in atStart.srcFiles
    /\ file_path \in srcFiles

\* the stages of process_demo_file
IngestStages == {"validate", "locate", "decompress", "delete_source", "metadata",
                 "rename", "clipboard", "assemble", "done"}

\* the order of the stages, on the collaborator calls made so far: validate
\* and locate precede every call, copy_stream needs a located directory,
\* unlink a decompressed output, the parser comes after unlink, rename after
\* the parser, and the clipboard command is composed after the rename from
\* the final filename, which names the file on disk
StageOrder ==
    pc \in IngestStages =>
        /\ pc \in {"validate", "locate"} => calls = {}
        /\ "PathConfigManager" \in calls => InputValid /\ ZSTD_AVAILABLE
        /\ "copy_stream" \in calls =>
              "PathConfigManager" \in calls \ faulted /\ csgo_folder # None
        /\ "unlink" \in calls => Decompressed
        /\ "parser" \in calls => "unlink" \in calls
        /\ "rename" \in calls => "parser" \in calls \ faulted
        /\ "copy" \in calls => "unlink" \in calls /\ pc \in {"assemble", "done"}
        /\ pc \in {"metadata", "rename", "clipboard"} =>
              "copy" \notin calls /\ clipboard_result = NoneDict
        /\ clipboard_result # NoneDict =>
              clipboard_result.command = "playdemo " \o final_filename
        /\ (pc = "done" /\ response.status = "success") =>
              /\ {"PathConfigManager", "copy_stream", "unlink"} \subseteq calls
              /\ response.demo_name = final_filename
              /\ response.clipboard.command = "playdemo " \o response.demo_name
              /\ FileExists(destFiles, Join(csgo_folder, final_filename))

\* the source path of the run is not on disk or is not a .zst file
InputRefused ==
    /\ file_path # None
    /\ \/ file_path \notin atStart.srcFiles
       \/ SubSeq(file_path, Len(file_path) - 3, Len(file_path)) # ".zst"

\* the message of the validate stage for the source path of the run
InputErrorMessage ==
    IF file_path \notin atStart.srcFiles
    THEN "File not found: " \o file_path
    ELSE "File is not a compressed demo (.zst)"

\* C23 (as amended): the stages run in the order validate, locate
\* destination, decompress, delete source, resolve metadata and rename,
\* publish launch command, assemble result, and the clipboard command is
\* composed after the rename from the final filename.  The test of the
\* decompression library precedes validate: for a source path that does not
\* exist or lacks the .zst extension the failure is the input-error message
\* when the library is available, whatever the parser, the clipboard and the
\* configuration, and the library-not-installed message when it is not.
C23_StageOrder ==
    /\ StageOrder
    /\ (pc = "done" /\ InputRefused) =>
          /\ response.status = "error"
          /\ calls = {}
          /\ response.message =
                IF ZSTD_AVAILABLE THEN InputErrorMessage
                ELSE "Decompression library not installed. Please run: pip install zstandard"

\* C23 (as stated): for a source path that does not exist or lacks the
\* .zst extension the failure is the input-error message whatever the
\* availability of the decompression library.
C23_ValidateFirst ==
    /\ StageOrder
    /\ (pc = "done" /\ InputRefused) =>
          /\ response.status = "error"
          /\ response.message = InputErrorMessage

\* a missing archive was refused with the input-error message on a machine
\* without parser and clipboard and with a configuration file
C23_Witness ==
    /\ pc = "done"
    /\ InputRefused
    /\ file_path \notin atStart.srcFiles
    /\ ZSTD_AVAILABLE /\ ~DEMOPARSER_AVAILABLE /\ ~CLIPBOARD_AVAILABLE
    /\ cfgFile # NoneDict
    /\ response.message = InputErrorMessage

\* C24: during and after process_demo_file every file that was in the data
\* directories when the run began is still there with its name, content,
\* size and time, in particular a decompressed file an earlier run left
\* under its archive's name.
C24_NeverOverwrites ==
    pc \in IngestStages => atStart.destFiles \subseteq destFiles

(***************************************************************************)
(* Properties of the other actions of main.  They are stated on the state  *)
(* in which the branch has its response and is about to send it            *)
(* (pc = "reply"), or has raised into the except clause (pc = "except").   *)
(***************************************************************************)
\* the configuration a PathConfigManager loaded when the request arrived
LoadedAtStart == IF atStart.cfgFile = NoneDict THEN EmptyConfig ELSE atStart.cfgFile

\* set_custom_path(path) has returned in the setCS2Path branch
SetPathReturned ==
    /\ pc = "reply"
    /\ MsgGet(received_message, "action") = "setCS2Path"

Located ==
    /\ pc \in {"decompress", "done"}
    /\ calls = {"PathConfigManager"}
    /\ "PathConfigManager" \notin faulted

\* C15: when no override accepted by set_custom_path exists on disk,
\* get_cs2_csgo_path returns what find_cs2_csgo_folder returns; when that is
\* a path, the in-memory configuration holds it as the cache, and so does
\* config.json unless the write failed; when that is nothing, the call
\* returns nothing and the configuration is unchanged in memory and on
\* disk.  A path that get_cs2_csgo_path returns exists on disk.
C15_Fallback ==
    Located =>
        LET auto == find_cs2_csgo_folder(NewFinder).result
        IN  /\ csgo_folder # None => Exists(csgo_folder)
            /\ (customSet = None \/ ~Exists(customSet)) =>
                  /\ csgo_folder = auto
                  /\ auto # None =>
                        /\ config.cs2_csgo_path = auto
                        /\ "save_config" \notin faulted =>
                              /\ cfgFile # NoneDict
                              /\ cfgFile.cs2_csgo_path = auto
                  /\ auto = None =>
                        /\ config = LoadedAtStart
                        /\ cfgFile = atStart.cfgFile

\* get_all_detected_paths() has returned in the getCS2Path branch
DetectedReturned ==
    /\ pc = "reply"
    /\ MsgGet(received_message, "action") = "getCS2Path"

\* Steam is installed where the registry says
SteamInstalled == \E k \in 1..3 : registry[k] # None /\ Exists(registry[k])

\* C16: get_all_detected_paths returns the discovery fields (what the
\* finder detects now, not the cached path) plus configured_path, the
\* override last accepted by set_custom_path and saved, or none; the
\* in-memory configuration is the one loaded, and config.json and the
\* other files are exactly as they were.
C16_DetectedPathsReadOnly ==
    DetectedReturned =>
        /\ response.status = "success"
        /\ response.paths.configured_path = customSet
        /\ response.paths.cs2_csgo_path = IF SteamInstalled THEN AutoCsgo ELSE None
        /\ response.paths.steam_path = IF SteamInstalled THEN SteamRoot ELSE None
        /\ response.paths.cs2_path = IF SteamInstalled THEN Cs2Root ELSE None
        /\ response.paths.cs2_exe_path = IF SteamInstalled THEN Cs2Exe ELSE None
        /\ response.paths.steam_libraries =
              IF SteamInstalled THEN <<SteamRoot>> ELSE <<>>
        /\ config = LoadedAtStart
        /\ cfgFile = atStart.cfgFile
        /\ destFiles = atStart.destFiles
        /\ srcFiles = atStart.srcFiles

\* C16 witness: an override was saved by an earlier request, config.json
\* caches another path, and get_all_detected_paths reports the override.
C16_Witness ==
    /\ DetectedReturned
    /\ customSet = CustomDir
    /\ cfgFile.cs2_csgo_path = OldCsgo
    /\ response.paths.configured_path = CustomDir

\* C17: when a process that read a request has ended, whatever the action
\* and the fields of the message, malformed or not, and whatever was raised
\* while handling it or while sending, its output holds exactly one
\* complete length-prefixed response and nothing else.
C17_ExactlyOneResponse ==
    /\ (pc = "idle" /\ runs > 0) => stdout = <<"frame">>
    /\ pc \notin {"idle", "except"} => stdout = <<>>

\* the requests of the ping branch and of the else branch
IsOther == received_message \in OtherMessages

\* C18: a request whose action is "ping" is answered
\* {status: success, message: pong}; a request whose action is none of
\* processDemo, getCS2Path, setCS2Path, deleteDemo, ping, or is missing, is
\* answered {status: unknown_action, received: the message as read}; in both
\* cases no collaborator is called and the configuration, the files and the
\* clipboard are as they were, and nothing is raised before the send.
C18_Dispatch ==
    /\ (pc = "reply" /\ IsOther) =>
          /\ MsgGet(received_message, "action") = "ping" =>
                response = [status |-> "success", message |-> "pong"]
          /\ MsgGet(received_message, "action") # "ping" =>
                /\ response.status = "unknown_action"
                /\ response.received = received_message
                /\ DOMAIN response = {"status", "received"}
          /\ calls = {}
          /\ cfgFile = atStart.cfgFile
          /\ destFiles = atStart.destFiles
          /\ srcFiles = atStart.srcFiles
          /\ clipboard = atStart.clipboard
    /\ (pc = "except" /\ IsOther) =>
          /\ faulted = {"send_message"}
          /\ cfgFile = atStart.cfgFile
          /\ destFiles = atStart.destFiles
          /\ srcFiles = atStart.srcFiles
    /\ IsOther => pc \in {"reply", "except"}

\* C18 witness: a message without action is about to be answered.
C18_Witness ==
    /\ pc = "reply"
    /\ received_message = [data |-> "test"]
    /\ response.status = "unknown_action"

\* delete_demo_file has returned in the deleteDemo branch
DeleteReturned ==
    /\ pc = "reply"
    /\ MsgGet(received_message, "action") = "deleteDemo"

\* the file {destination}/{demoName} was there when the request arrived
DeleteTargetExisted ==
    /\ csgo_folder # None
    /\ MsgGet(received_message, "demoName") # None
    /\ \/ FileExists(atStart.destFiles,
                     DeleteTarget(csgo_folder, received_message.demoName))
       \/ DeleteTarget(csgo_folder, received_message.demoName) \in atStart.srcFiles

\* C19 (as amended): delete_demo_file never raises.  When the destination
\* resolves and {destination}/{demoName} exists, unlink is called: when it
\* returns, that file and only that file is gone and status=success is
\* returned; when it raises, status=error is returned and no file is
\* removed.  When the destination is unresolvable or the file is absent,
\* status=error is returned and no file is removed.
C19_DeleteDemo ==
    /\ MsgGet(received_message, "action") = "deleteDemo" =>
          \/ pc = "reply"
          \/ pc = "except" /\ "send_message" \in faulted
    /\ DeleteReturned =>
          /\ srcFiles \subseteq atStart.srcFiles
          /\ destFiles \subseteq atStart.destFiles
          /\ (DeleteTargetExisted /\ "unlink" \notin faulted) =>
                /\ response.status = "success"
                /\ response.message = "Demo file deleted: " \o received_message.demoName
                /\ atStart.destFiles \ destFiles =
                      FilesAt(atStart.destFiles,
                              DeleteTarget(csgo_folder, received_message.demoName))
                /\ atStart.srcFiles \ srcFiles =
                      atStart.srcFiles
                          \cap {DeleteTarget(csgo_folder, received_message.demoName)}
          /\ (DeleteTargetExisted /\ "unlink" \in faulted) =>
                /\ response.status = "error"
                /\ destFiles = atStart.destFiles
                /\ srcFiles = atStart.srcFiles
          /\ ~DeleteTargetExisted =>
                /\ response.status = "error"
                /\ Len(response.message) > 0
                /\ destFiles = atStart.destFiles
                /\ srcFiles = atStart.srcFiles
                /\ "unlink" \notin calls

\* C19 (as stated): whenever the destination resolves and the file exists,
\* that file and only that file is removed and status=success is returned;
\* otherwise status=error is returned and no file is removed.
C19_ExistingAlwaysDeleted ==
    DeleteReturned =>
        /\ DeleteTargetExisted =>
              /\ response.status = "success"
              /\ atStart.destFiles \ destFiles =
                    FilesAt(atStart.destFiles,
                            DeleteTarget(csgo_folder, received_message.demoName))
        /\ ~DeleteTargetExisted =>
              /\ response.status = "error"
              /\ destFiles = atStart.destFiles

\* C19 witness: the demo of an earlier ingest was deleted, and another file
\* of the directory is still there.
C19_Witness ==
    /\ DeleteReturned
    /\ DeleteTargetExisted
    /\ response.status = "success"
    /\ destFiles # {}
    /\ destFiles # atStart.destFiles
    /\ Len(history) = 1

(***************************************************************************)
(* parse_demo_metadata, lines 187-192, on its own: the map name of every   *)
(* raw identifier made of a few tokens.                                    *)
(***************************************************************************)
\* the pieces raw map identifiers are made of
Tokens == {"de_", "cs_", "ar_", "arca", "mirage", "office"}

RECURSIVE Identifiers(_)
\* the identifiers of at most n tokens
Identifiers(n) ==
    IF n = 0 THEN {""}
    ELSE Identifiers(n - 1) \cup {i \o t : i \in Identifiers(n - 1), t \in Tokens}

\* the headers parse_header() can return: with a map_name, or without
RawHeaders == {[map_name |-> i] : i \in Identifiers(MaxTokens)} \cup {[other |-> ""]}

NormInit ==
    /\ registry = BareMachine.registry
    /\ fsPaths = BareMachine.fsPaths
    /\ manifests = BareMachine.manifests
    /\ destFiles = {}
    /\ srcFiles = InitialSources
    /\ cfgFile = NoneDict
    /\ clipboard = None
    /\ today \in {dt \in Dates : dt.d = 19}
    /\ faults = 0
    /\ ZSTD_AVAILABLE = TRUE
    /\ CLIPBOARD_AVAILABLE = TRUE
    /\ DEMOPARSER_AVAILABLE = TRUE
    /\ pc = "header"
    /\ runs = 0
    /\ NoLocals
    /\ received_message = NoneDict
    /\ stdout = <<>>
    /\ calls = {}
    /\ faulted = {}
    /\ parsed_header \in RawHeaders
    /\ atStart = NoSnapshot
    /\ customSet = None
    /\ history = <<>>
    /\ initialDest = {}
    /\ call = NoneDict

\* lines 187-192: map_name = header.get('map_name', 'unknown'), cleaned
NormalizeMapName ==
    /\ UNCHANGED call
    /\ pc = "header"
    /\ pc' = "map_name"
    /\ demo_metadata' = [map |-> CleanMapName(HeaderMapName(parsed_header))]
    /\ UNCHANGED <<machineVars, runs, file_path, config, finder, csgo_folder,
                   output_filename, output_path, file_size, final_filename,
                   clipboard_result, response, ioVars, ghostVars>>

NormNext == NormalizeMapName

NormSpec == NormInit /\ [][NormNext]_vars

\* C20: the normalized map name is the raw identifier without its leading
\* "de_" or "cs_" when it starts with one of them, and the raw identifier
\* unchanged otherwise, for every identifier.
C20_PrefixStripped ==
    (pc = "map_name" /\ "map_name" \in DOMAIN parsed_header) =>
        LET raw == parsed_header.map_name
        IN  demo_metadata.map =
               IF StartsWith(raw, "de_") \/ StartsWith(raw, "cs_")
               THEN StrFrom(raw, 4)
               ELSE raw

(***************************************************************************)
(* path_finder.py on its own: one PathConfigManager and its SteamPathFinder *)
(* called method by method, on a family of machines, while the             *)
(* installation may move or disappear between two calls.                   *)
(***************************************************************************)
\* registry paths and libraries besides SteamRoot: a second Steam root
\* without steamapps, a root that is not on disk, a second library, and a
\* library of the manifest that is not on disk
AltRoot == "D:\\SteamAlt"
GhostRoot == "E:\\Steam"
Library2 == "D:\\Library"
GoneLibrary == "E:\\Gone"

\* library / "steamapps" / "common"
Common(library) == Join(Join(library, "steamapps"), "common")

\* the candidate game folders the machines have
Cs2Root2 == Join(Common(SteamRoot), CS2_FOLDER_NAMES[2])
Cs2Root3 == Join(Common(Library2), CS2_FOLDER_NAMES[3])

\* what is on disk of a game folder, by layout
GameFolder(root, layout) ==
    CASE layout = "none" -> {}
      [] layout = "bare" -> {root}
      [] layout = "game" -> {root, Join(root, "game")}
      [] layout = "game_csgo" ->
            {root, Join(root, "game"), Join(Join(root, "game"), "csgo"),
             Join(Join(Join(Join(root, "game"), "bin"), "win64"), "cs2.exe")}
      [] layout = "csgo" -> {root, Join(root, "csgo"), Join(root, "cs2.exe")}

\* everything a game folder can have on disk
GameTree(root) == GameFolder(root, "game_csgo") \cup GameFolder(root, "csgo")

\* the Steam root with its library folders
SteamTree == {SteamRoot, Join(SteamRoot, "steamapps"), Common(SteamRoot)}

\* the directories that are there whatever is installed
BaseDirs == {AltRoot, Library2, Join(Library2, "steamapps"), Common(Library2),
             CustomDir, OldCsgo}

\* the filesystems: the first candidate folder of the Steam library in each
\* layout, the second candidate there or not, a legacy folder in the second
\* library or not
Filesystems ==
    {BaseDirs \cup SteamTree \cup GameFolder(Cs2Root, l1)
        \cup GameFolder(Cs2Root2, l2) \cup GameFolder(Cs2Root3, l3) :
        l1 \in {"none", "bare", "game", "game_csgo", "csgo"},
        l2 \in {"none", "game_csgo"},
        l3 \in {"none", "csgo"}}

\* the InstallPath values of the three registry keys
Registries ==
    {<<None, None, None>>, <<None, SteamRoot, None>>, <<GhostRoot, SteamRoot, None>>,
     <<AltRoot, None, SteamRoot>>, <<None, None, GhostRoot>>}

VdfPath == Join(Join(SteamRoot, "steamapps"), "libraryfolders.vdf")

\* libraryfolders.vdf of SteamRoot: missing, unreadable, or with "path"
\* entries (backslashes escaped as in the file)
ManifestFiles ==
    {{},
     {[path |-> VdfPath, readable |-> FALSE, entries |-> <<>>]},
     {[path |-> VdfPath, readable |-> TRUE,
       entries |-> <<"C:\\\\Steam", "D:\\\\Library", "E:\\\\Gone", "D:\\\\Library">>]}}

FinderInit ==
    /\ registry \in Registries
    /\ fsPaths \in Filesystems
    /\ manifests \in ManifestFiles
    /\ destFiles = {}
    /\ srcFiles = {}
    /\ cfgFile \in InitialConfigs
    /\ clipboard = None
    /\ today \in {dt \in Dates : dt.d = 19}
    /\ faults = 0
    /\ ZSTD_AVAILABLE = TRUE
    /\ CLIPBOARD_AVAILABLE = TRUE
    /\ DEMOPARSER_AVAILABLE = TRUE
    /\ pc = "path_finder"
    /\ runs = 0
    /\ file_path = None
    /\ config = LoadConfig
    /\ finder = NewFinder
    /\ csgo_folder = None
    /\ output_filename = None
    /\ output_path = None
    /\ file_size = 0
    /\ final_filename = None
    /\ demo_metadata = NoneDict
    /\ clipboard_result = NoneDict
    /\ response = NoneDict
    /\ received_message = NoneDict
    /\ stdout = <<>>
    /\ calls = {}
    /\ faulted = {}
    /\ parsed_header = NoneDict
    /\ atStart = NoSnapshot
    /\ customSet = None
    /\ history = <<>>
    /\ initialDest = {}
    /\ call = NoneDict

\* what a call finds when it is entered
Entry == [finder |-> finder, config |-> config, cfgFile |-> cfgFile]

\* what no method of the two classes touches
FinderFrame ==
    UNCHANGED <<installVars, destFiles, srcFiles, clipboard, today, capVars,
                pc, file_path, csgo_folder, output_filename, output_path,
                file_size, final_filename, demo_metadata, clipboard_result,
                response, ioVars, ghostVars>>

\* a call of a SteamPathFinder method that gave r = [result, finder]
FinderCall(op, r) ==
    /\ pc = "path_finder"
    /\ runs < MaxCalls
    /\ runs' = runs + 1
    /\ call' = [op |-> op, result |-> r.result, entry |-> Entry, written |-> TRUE]
    /\ finder' = r.finder
    /\ UNCHANGED <<config, cfgFile, faults>>
    /\ FinderFrame

FindSteamInstallation ==
    \E r \in {find_steam_installation(finder)} : FinderCall("find_steam_installation", r)

GetSteamLibraryFolders ==
    \E r \in {get_steam_library_folders(finder)} : FinderCall("get_steam_library_folders", r)

FindCs2Installation ==
    \E r \in {find_cs2_installation(finder)} : FinderCall("find_cs2_installation", r)

FindCs2CsgoFolder ==
    \E r \in {find_cs2_csgo_folder(finder)} : FinderCall("find_cs2_csgo_folder", r)

FindCs2Executable ==
    \E r \in {find_cs2_executable(finder)} : FinderCall("find_cs2_executable", r)

FindAllPaths ==
    \E r \in {find_all_paths(finder)} : FinderCall("find_all_paths", r)

\* a variant in which a failed write undoes the change in memory
ManagerCallRolledBack(op, r, written) ==
    /\ pc = "path_finder"
    /\ runs < MaxCalls
    /\ runs' = runs + 1
    /\ r.saved \/ written
    /\ faults' = Count(written)
    /\ call' = [op |-> op, result |-> r.result, entry |-> Entry, written |-> written]
    /\ config' = IF written THEN r.config ELSE config
    /\ finder' = r.finder
    /\ cfgFile' = IF r.saved THEN SaveConfig(r.config, written) ELSE cfgFile
    /\ FinderFrame

\* a call of a PathConfigManager method that gave r = [result, config,
\* finder, saved]; `written` is whether save_config could write the file
ManagerCall(op, r, written) ==
    /\ pc = "path_finder"
    /\ runs < MaxCalls
    /\ runs' = runs + 1
    /\ r.saved \/ written
    /\ faults' = Count(written)
    /\ call' = [op |-> op, result |-> r.result, entry |-> Entry, written |-> written]
    /\ config' = r.config
    /\ finder' = r.finder
    /\ cfgFile' = IF r.saved THEN SaveConfig(r.config, written) ELSE cfgFile
    /\ FinderFrame

GetCs2CsgoPath ==
    \E r \in {get_cs2_csgo_path(config, finder)}, written \in Outcomes :
        ManagerCall("get_cs2_csgo_path", r, written)

SetCustomPath(path) ==
    \E got \in {set_custom_path(config, path)}, written \in Outcomes :
        ManagerCall("set_custom_path",
                    [result |-> <<path, got.result>>, config |-> got.config,
                     finder |-> finder, saved |-> got.saved],
                    written)

GetAllDetectedPaths ==
    \E got \in {get_all_detected_paths(config, finder)} :
        ManagerCall("get_all_detected_paths",
                    [result |-> got.result, config |-> got.config,
                     finder |-> got.finder, saved |-> FALSE],
                    TRUE)

\* PathConfigManager.__init__ in a new process: the configuration is read
\* from the file and the finder is new
NewManager ==
    /\ pc = "path_finder"
    /\ config # LoadConfig \/ finder # NewFinder
    /\ config' = LoadConfig
    /\ finder' = NewFinder
    /\ call' = NoneDict
    /\ UNCHANGED <<runs, cfgFile, faults>>
    /\ FinderFrame

\* the machine changes between two calls: the game is uninstalled, moved to
\* the second library or installed, or Steam is removed with its registry
\* keys, or moved to the second root
Relocate(kind) ==
    /\ pc = "path_finder"
    /\ fsPaths' =
          CASE kind = "uninstall" -> fsPaths \ GameTree(Cs2Root)
            [] kind = "move" ->
                  (fsPaths \ GameTree(Cs2Root)) \cup GameFolder(Cs2Root3, "csgo")
            [] kind = "install" -> fsPaths \cup GameFolder(Cs2Root, "game_csgo")
            [] kind \in {"steam_removed", "steam_moved"} ->
                  fsPaths \ (SteamTree \cup GameTree(Cs2Root) \cup GameTree(Cs2Root2))
    /\ registry' = CASE kind = "steam_removed" -> <<None, None, None>>
                      [] kind = "steam_moved" -> <<AltRoot, None, None>>
                      [] OTHER -> registry
    /\ manifests' = IF kind \in {"steam_removed", "steam_moved"} THEN {} ELSE manifests
    /\ fsPaths' # fsPaths
    /\ call' = NoneDict
    /\ UNCHANGED <<destFiles, srcFiles, cfgFile, clipboard, today, faults, capVars,
                   pc, runs, localVars, ioVars, ghostVars>>

FinderNext ==
    \/ GetCs2CsgoPath
    \/ FindSteamInstallation
    \/ FindCs2Installation
    \/ GetSteamLibraryFolders
    \/ FindCs2CsgoFolder
    \/ FindCs2Executable
    \/ FindAllPaths
    \/ \E path \in {CustomDir, MissingDir} : SetCustomPath(path)
    \/ GetAllDetectedPaths
    \/ NewManager
    \/ \E kind \in {"uninstall", "move", "install", "steam_removed", "steam_moved"} :
          Relocate(kind)

FinderSpec == FinderInit /\ [][FinderNext]_vars

(***************************************************************************)
(* Properties of the SteamPathFinder and PathConfigManager methods.  They   *)
(* are stated on the state in which a method has returned: call holds its   *)
(* result and what it found on entry, and the machine is as it was during   *)
(* the call.                                                                *)
(***************************************************************************)
\* registry key k can be read and its InstallPath is on disk
KeyQualifies(k) == registry[k] # None /\ Exists(registry[k])

\* a method of the finder, or get_all_detected_paths, has returned
Called(op) == call # NoneDict /\ call.op = op

\* the dict of find_all_paths in which every path is empty
NothingFound ==
    [steam_path |-> None, cs2_path |-> None, cs2_csgo_path |-> None,
     cs2_exe_path |-> None, steam_libraries |-> <<>>]

\* C21: when no registry key gives an installation root that is on disk,
\* find_steam_installation, find_cs2_installation, find_cs2_csgo_folder and
\* find_cs2_executable return nothing, get_steam_library_folders returns the
\* empty list, and every path of find_all_paths is empty.
C21_EmptyPropagates ==
    (call # NoneDict /\ \A k \in 1..3 : ~KeyQualifies(k)) =>
        /\ call.op \in {"find_steam_installation", "find_cs2_installation",
                        "find_cs2_csgo_folder", "find_cs2_executable"}
              => call.result = None
        /\ call.op = "get_steam_library_folders" => call.result = <<>>
        /\ call.op = "find_all_paths" => call.result = NothingFound

\* a folder holds the data directory in one of the two layouts
HasDataFolder(root) ==
    Exists(Join(Join(root, "game"), "csgo")) \/ Exists(Join(root, "csgo"))

\* the candidate folders in probing order: library by library, and within
\* a library the folder names in their order
Candidates(libraries) ==
    [n \in 1..(Len(libraries) * Len(CS2_FOLDER_NAMES)) |->
        Join(Common(libraries[((n - 1) \div Len(CS2_FOLDER_NAMES)) + 1]),
             CS2_FOLDER_NAMES[((n - 1) % Len(CS2_FOLDER_NAMES)) + 1])]

\* C25: the installation root find_cs2_installation returns holds the data
\* directory ({root}/game/csgo or {root}/csgo is on disk, so that
\* find_cs2_csgo_folder returns it), and it is the first candidate, in the
\* order of the libraries and of the folder names, that is on disk and holds
\* the data directory; nothing is returned when there is no such candidate.
C25_RootHasDataFolder ==
    Called("find_cs2_installation") =>
        LET cands == Candidates(get_steam_library_folders(call.entry.finder).result)
            good == {n \in DOMAIN cands : Exists(cands[n]) /\ HasDataFolder(cands[n])}
        IN  /\ call.result # None =>
                 /\ HasDataFolder(call.result)
                 /\ find_cs2_csgo_folder(finder).result # None
            /\ call.result =
                 IF good = {} THEN None
                 ELSE cands[CHOOSE n \in good : \A m \in good : n <= m]

\* the primary installation root: the InstallPath of the first registry
\* key that qualifies, None when no key does
PrimaryRoot ==
    IF \E k \in 1..3 : KeyQualifies(k)
    THEN registry[CHOOSE k \in 1..3 : KeyQualifies(k) /\ \A j \in 1..(k - 1) : ~KeyQualifies(j)]
    ELSE None

\* a "path" entry of the manifest without the escaping of its backslashes
Unescaped(entry) == StrReplace(entry, "\\\\", "\\")

\* the position of the first entry of the manifest that names a path
FirstEntry(entries, path) ==
    CHOOSE i \in 1..Len(entries) :
        /\ Unescaped(entries[i]) = path
        /\ \A j \in 1..(i - 1) : Unescaped(entries[j]) # path

\* C26: when the registry gives a primary root, the list of
\* get_steam_library_folders starts with it, holds after it exactly the
\* "path" entries of the root's manifest that are on disk, in the order of
\* the manifest, holds no path twice and no path that is not on disk; when
\* the manifest is missing or cannot be read it holds the primary root only.
C26_LibraryRoots ==
    (Called("get_steam_library_folders") /\ PrimaryRoot # None) =>
        LET libraries == call.result
            vdf == ManifestAt(Join(Join(PrimaryRoot, "steamapps"), "libraryfolders.vdf"))
            entries == IF vdf = NoneDict THEN <<>>
                       ELSE IF vdf.readable THEN vdf.entries ELSE <<>>
            listed == {Unescaped(entries[i]) : i \in 1..Len(entries)}
        IN  /\ Len(libraries) >= 1
            /\ libraries[1] = PrimaryRoot
            /\ \A i \in 1..Len(libraries) : Exists(libraries[i])
            /\ \A i, j \in 1..Len(libraries) : libraries[i] = libraries[j] => i = j
            /\ {libraries[i] : i \in 1..Len(libraries)}
                  = {PrimaryRoot} \cup {path \in listed : Exists(path)}
            /\ \A i, j \in 2..Len(libraries) :
                  i < j => FirstEntry(entries, libraries[i]) < FirstEntry(entries, libraries[j])
            /\ entries = <<>> => libraries = <<PrimaryRoot>>

\* C27: find_steam_installation returns the InstallPath of the first of the
\* three registry keys that can be read and whose path is on disk, skipping
\* the keys before it, and nothing when no key qualifies;
\* find_cs2_csgo_folder returns the first of {root}/game/csgo and
\* {root}/csgo that is on disk, for the installation root of the finder, and
\* nothing when neither is or there is no root; a returned path is on disk.
C27_FirstHit ==
    /\ Called("find_steam_installation") =>
          /\ call.result = PrimaryRoot
          /\ call.result # None => Exists(call.result)
    /\ Called("find_cs2_csgo_folder") =>
          LET root == finder.cs2_path
              first == Join(Join(root, "game"), "csgo")
              second == Join(root, "csgo")
          IN  /\ call.result = IF root = None THEN None
                               ELSE IF Exists(first) THEN first
                               ELSE IF Exists(second) THEN second
                               ELSE None
              /\ call.result # None => Exists(call.result)

\* the first key names a path that is not on disk and the second key's path
\* was returned
C27_Witness ==
    /\ Called("find_steam_installation")
    /\ registry[1] # None
    /\ ~Exists(registry[1])
    /\ call.result = registry[2]
    /\ call.result # None

\* the call of get_cs2_csgo_path went on to auto-detection: the configuration
\* it found held no path, or a path that is not on disk
ReachedAutoDetection ==
    /\ Called("get_cs2_csgo_path")
    /\ call.entry.config.cs2_csgo_path = None
          \/ ~Exists(call.entry.config.cs2_csgo_path)

\* what a full discovery pass on the machine as it is finds
FreshDiscovery == find_cs2_csgo_folder(NewFinder).result

\* C28: a call of get_cs2_csgo_path that reaches auto-detection returns what
\* a full discovery pass against the filesystem as it is finds, whatever an
\* earlier call on the same PathConfigManager found.
C28_NoMemoryOfDiscovery ==
    ReachedAutoDetection => call.result = FreshDiscovery

\* the call of get_cs2_csgo_path found a configuration in which no override
\* was ever stored by set_custom_path
NoOverrideSet ==
    /\ Called("get_cs2_csgo_path")
    /\ call.entry.config.cs2_replays_path = None

\* C29: with no override ever set, get_cs2_csgo_path returns what a fresh
\* discovery pass finds; the path cached by an earlier auto-detection is
\* never returned in place of a different path that discovery yields.
C29_CacheHasLowestPriority ==
    NoOverrideSet => call.result = FreshDiscovery

\* the configuration in memory differs from what the file holds
MemoryAhead(c, file) == c # (IF file = NoneDict THEN EmptyConfig ELSE file)

\* C30: a failure to write the configuration file is swallowed: set_custom_path
\* on an existing path still returns True, get_cs2_csgo_path still returns the
\* path it found, the file is left as it was and the configuration in memory
\* holds the new value; later calls on the same PathConfigManager answer from
\* the configuration in memory.
C30_WriteFailureSwallowed ==
    /\ (Called("set_custom_path") /\ ~call.written /\ Exists(call.result[1])) =>
          /\ call.result[2] = TRUE
          /\ config.cs2_replays_path = call.result[1]
          /\ cfgFile = call.entry.cfgFile
    /\ (Called("get_cs2_csgo_path") /\ ~call.written) =>
          /\ call.result # None
          /\ call.result = get_cs2_csgo_path(call.entry.config, call.entry.finder).result
          /\ config.cs2_csgo_path = call.result
          /\ cfgFile = call.entry.cfgFile
    /\ Called("get_all_detected_paths") =>
          call.result.configured_path = call.entry.config.cs2_replays_path
    /\ (Called("get_cs2_csgo_path")
          /\ call.entry.config.cs2_csgo_path # None
          /\ Exists(call.entry.config.cs2_csgo_path)) =>
          call.result = call.entry.config.cs2_csgo_path

\* set_custom_path could not write the file and returned True, and the next
\* call on the same manager reported the path that is only in memory
C30_Witness ==
    /\ Called("get_all_detected_paths")
    /\ MemoryAhead(call.entry.config, call.entry.cfgFile)
    /\ call.result.configured_path = CustomDir
    /\ faults > 0

(***************************************************************************)
(* Properties of config.json over the requests of the host.                *)
(***************************************************************************)
\* the request being handled, or handled last, is a setCS2Path request
\* whose set_custom_path called save_config
OverrideSaved ==
    /\ MsgGet(received_message, "action") = "setCS2Path"
    /\ "save_config" \in calls

\* the request being handled, or handled last, is a processDemo or
\* deleteDemo request that has constructed its PathConfigManager, on which
\* it calls get_cs2_csgo_path
DestinationResolved ==
    /\ MsgGet(received_message, "action") \in {"processDemo", "deleteDemo"}
    /\ "PathConfigManager" \in calls
    /\ "PathConfigManager" \notin faulted

\* C31: config.json differs from what it held when the request arrived only
\* in a setCS2Path request that stored an override or a request that
\* recorded an auto-detected path (get_cs2_csgo_path, called by processDemo
\* and deleteDemo), and it then holds the whole
\* configuration in memory, in which only the field that was set differs
\* from what was loaded; whenever such a mutation's write does not fail the
\* file holds the whole configuration in memory; ping, getCS2Path, a refused
\* setCS2Path and unknown actions leave the file as it was.
C31_WholeFileRewrite ==
    pc # "idle" =>
        /\ cfgFile # atStart.cfgFile =>
              /\ OverrideSaved \/ DestinationResolved
              /\ cfgFile = config
              /\ OverrideSaved =>
                    config = [LoadedAtStart EXCEPT !.cs2_replays_path = received_message.path]
              /\ DestinationResolved =>
                    config = [LoadedAtStart EXCEPT !.cs2_csgo_path = csgo_folder]
        /\ (OverrideSaved /\ "save_config" \notin faulted) => cfgFile = config
        /\ (DestinationResolved /\ pc # "locate" /\ config # LoadedAtStart
               /\ "save_config" \notin faulted) => cfgFile = config

\* a request recorded the auto-detected path in a file that held an
\* override, and the file holds both
C31_Witness ==
    /\ pc # "idle"
    /\ DestinationResolved
    /\ cfgFile # atStart.cfgFile
    /\ cfgFile.cs2_replays_path = CustomDir
    /\ cfgFile.cs2_csgo_path = AutoCsgo

\* C32: once a setCS2Path request has stored the override p and written it
\* to config.json, the PathConfigManager of a later process reports p as
\* configured_path, and a later processDemo request uses p as its
\* destination directory while p is on disk.
C32_OverrideRoundTrip ==
    customSet # None =>
        /\ DetectedReturned => response.paths.configured_path = customSet
        /\ (/\ MsgGet(received_message, "action") = "processDemo"
            /\ "PathConfigManager" \in calls \ faulted
            /\ pc # "locate"
            /\ Exists(customSet)) =>
              /\ csgo_folder = customSet
              /\ output_path # None => PathParent(output_path) = customSet

\* C33: whatever demoName is, a name with parent-directory components and
\* an absolute path included, delete_demo_file removes no file that lies
\* outside the destination directory it resolved.
C33_DeleteConfined ==
    DeleteReturned =>
        /\ srcFiles = atStart.srcFiles
        /\ \A f \in atStart.destFiles \ destFiles : f.dir = csgo_folder

\* C34: whenever process_demo_file returns status=error, a decompression
\* that raises part-way included, the files of the data directories and
\* their contents are what they were when the request arrived.
C34_NoArtifactOnFailure ==
    (/\ pc = "done"
     /\ MsgGet(received_message, "action") = "processDemo"
     /\ response.status = "error")
        => destFiles = atStart.destFiles

\* C35: in every success result of process_demo_file, output_path is
\* csgo_folder joined with demo_name and names a file that exists,
\* clipboard.command is "playdemo " followed by demo_name, and
\* metadata.renamed is true exactly when demo_name is the filename derived
\* from the metadata.
C35_SuccessConsistent ==
    (/\ pc = "done"
     /\ MsgGet(received_message, "action") = "processDemo"
     /\ response.status = "success") =>
        /\ response.output_path = Join(response.csgo_folder, response.demo_name)
        /\ FileExists(destFiles, response.output_path)
        /\ response.clipboard.command = "playdemo " \o response.demo_name
        /\ response.metadata.renamed
              <=> (/\ demo_metadata # NoneDict
                   /\ response.demo_name = demo_metadata.filename)

====
